---------------------------- MODULE Spec2Model ----------------------------
(***************************************************************************)
(* A model of the CHIP-8 execution core of chip8-rs: the instruction       *)
(* decoder (chip8_core/src/instructions.rs), the single-step operation     *)
(* Core::tick with its call stack (chip8_core/src/core.rs), the keypad     *)
(* edge set (chip8_core/src/peripherals.rs) and the driver step            *)
(* Chip8::tick (chip8_core/src/lib.rs).                                    *)
(***************************************************************************)
EXTENDS Naturals, Integers, Sequences, FiniteSets, TLC

VARIABLES
    mem,              \* Core.mem: the byte buffer
    reg,              \* Core.reg: V0..VF (indexed 0..15)
    stack,            \* Core.stack: return addresses (indexed 0..len-1)
    i,                \* Core.i
    pc,               \* Core.pc
    sp,               \* Core.sp (u8)
    timer_delay,      \* Chip8.timer_delay.val
    timer_sound,      \* Chip8.timer_sound.val
    timer_freq_div,   \* Chip8.timer_freq_div
    timer_freq_count, \* Chip8.timer_freq_count
    build,            \* "debug" (overflow checks panic) or "release" (wrap)
    halted,           \* TRUE once a step has panicked (the thread is gone)
    pre,              \* the machine state before the last step
    last,             \* the last step: instruction, result, collaborator calls
    calls,            \* open calls: <<call site, SP at the call>>, newest last
    jumped_odd,       \* TRUE once a jump or call to an odd address was taken
    slice,            \* decoder under test: the byte slice given to try_from
    decoded,          \* decoder under test: what try_from returned
    edgeset,          \* FallingEdges under test: the 16-bit mask
    edge0,            \* FallingEdges under test: the mask before any pop
    popped,           \* FallingEdges under test: results of the pops so far
    keys_prev,        \* CurrentKeys.prev (minifb.rs), a 16-bit mask
    keys_current,     \* CurrentKeys.current
    host,             \* the host keys the window reported in the last GUI iteration
    frame,            \* iterations of the GUI loop so far
    ticks,            \* Chip8::tick calls since the last GUI iteration
    taken,            \* key-waits completed: <<frame, key index>>, oldest first
    buf,              \* Buffer.buf: one value per 10 x 10 block of pixels
    draws,            \* toggle_sprite calls: position, sprite, buffer before, result
    pace,             \* Chip8::tick calls that returned Ok, and timer ticks among them
    buf_lock,         \* the Mutex around Buffer.buf: "free" or the thread holding it
    changed,          \* Buffer.changed, the AtomicBool
    core_at,          \* where the emulator thread is, with the locals of its call
    gui_at,           \* where the GUI thread is in MinifbDisplay::run
    gui_buffer,       \* the local `buffer` of run: the clone and the calls it holds
    window,           \* what update_with_buffer was last given
    stop_gui          \* the channel of emu.rs: messages in flight, sender alive

vars == <<mem, reg, stack, i, pc, sp, timer_delay, timer_sound,
          timer_freq_div, timer_freq_count, build, halted, pre, last, calls,
          jumped_odd, slice, decoded, edgeset, edge0, popped,
          keys_prev, keys_current, host, frame, ticks, taken, buf, draws, pace,
          buf_lock, changed, core_at, gui_at, gui_buffer, window, stop_gui>>

coreVars == <<mem, reg, stack, i, pc, sp, timer_delay, timer_sound,
              timer_freq_div, timer_freq_count, build, halted, pre, last,
              calls, jumped_odd>>
decVars  == <<slice, decoded>>
edgeVars == <<edgeset, edge0, popped>>
padVars  == <<keys_prev, keys_current, host, frame, ticks, taken>>
gfxVars  == <<buf, draws>>
thrVars  == <<buf_lock, changed, core_at, gui_at, gui_buffer, window, stop_gui>>

\* A variable that the specification at hand does not use.
Unused == "unused"

-----------------------------------------------------------------------------
(* Machine integers *)

U8  == 256
U16 == 65536

RECURSIVE BitAnd(_, _)
BitAnd(a, b) ==
    IF a = 0 \/ b = 0 THEN 0
    ELSE (a % 2) * (b % 2) + 2 * BitAnd(a \div 2, b \div 2)

RECURSIVE BitOr(_, _)
BitOr(a, b) ==
    IF a = 0 THEN b
    ELSE IF b = 0 THEN a
    ELSE (IF (a % 2) + (b % 2) > 0 THEN 1 ELSE 0) + 2 * BitOr(a \div 2, b \div 2)

RECURSIVE BitXor(_, _)
BitXor(a, b) ==
    IF a = 0 THEN b
    ELSE IF b = 0 THEN a
    ELSE (((a % 2) + (b % 2)) % 2) + 2 * BitXor(a \div 2, b \div 2)

Pow2(k) == 2 ^ k

\* v >> k
Shr(v, k) == v \div Pow2(k)

\* (v << k) in a type of the given width: the bits shifted out are lost
Shl(v, k, width) == (v * Pow2(k)) % width

-----------------------------------------------------------------------------
(* instructions.rs: operands *)

\* impl From<u8> for Register without the mask
Register_unmasked(val) == val

\* impl From<u8> for Register
Register(val) == BitAnd(val, 15)

\* impl From<(u8, u8, u8)> for Address
Address(a, b, c) ==
    BitOr(BitOr(BitAnd(Shl(a, 8, U16), 3840), BitAnd(Shl(b, 4, U16), 240)),
          BitAnd(c, 15))

\* impl From<(u8, u8)> for Value8
Value8(b, c) == BitOr(Shl(b, 4, U8), BitAnd(c, 15))

\* impl From<u8> for Value4
Value4(val) == BitAnd(val, 15)

\* fn nibbles: each shifted value is cast to u8
nibbles(val) ==
    <<Shr(val, 12) % U8, Shr(val, 8) % U8, Shr(val, 4) % U8, val % U8>>

\* enum Instruction: the variants by operand shape
InsNone(op)        == [op |-> op]
InsA(op, nnn)      == [op |-> op, nnn |-> nnn]
InsXV(op, x, vv)   == [op |-> op, x |-> x, vv |-> vv]
InsXY(op, x, y)    == [op |-> op, x |-> x, y |-> y]
InsXYN(op, x, y, v) == [op |-> op, x |-> x, y |-> y, v |-> v]
InsX(op, x)        == [op |-> op, x |-> x]

Variants ==
    {"I0NNN", "I00E0", "I00EE", "I1NNN", "I2NNN", "I3XNN", "I4XNN", "I5XY0",
     "I6XNN", "I7XNN", "I8XY0", "I8XY1", "I8XY2", "I8XY3", "I8XY4", "I8XY5",
     "I8XY6", "I8XY7", "I8XYE", "I9XY0", "IANNN", "IBNNN", "ICXNN", "IDXYN",
     "IEX9E", "IEXA1", "IFX07", "IFX0A", "IFX15", "IFX18", "IFX1E", "IFX29",
     "IFX33", "IFX55", "IFX65"}

\* Result<Instruction, ()> of the decode_* helpers
DOk(ins) == [ok |-> TRUE, ins |-> ins]
DErr     == [ok |-> FALSE]

\* decode_0 with the lower bound of the machine-routine range one too high
decode_0_from_0x201(nnn) ==
    IF nnn = 224 THEN DOk(InsNone("I00E0"))
    ELSE IF nnn = 238 THEN DOk(InsNone("I00EE"))
    ELSE IF nnn >= 513 /\ nnn <= 4095 THEN DOk(InsA("I0NNN", nnn))
    ELSE DErr

decode_0(nnn) ==
    IF nnn = 224 THEN DOk(InsNone("I00E0"))
    ELSE IF nnn = 238 THEN DOk(InsNone("I00EE"))
    ELSE IF nnn >= 512 /\ nnn <= 4095 THEN DOk(InsA("I0NNN", nnn))
    ELSE DErr

decode_5(x, y, v) ==
    IF v = 0 THEN DOk(InsXY("I5XY0", x, y)) ELSE DErr

\* decode_8 with one more arm, Value4(0x8)
decode_8_accepts_8(x, y, v) ==
    LET name == <<"I8XY0", "I8XY1", "I8XY2", "I8XY3", "I8XY4", "I8XY5", "I8XY6",
                  "I8XY7", "I8XY7">>
    IN IF v \in 0..8 THEN DOk(InsXY(name[v + 1], x, y))
       ELSE IF v = 14 THEN DOk(InsXY("I8XYE", x, y))
       ELSE DErr

decode_8(x, y, v) ==
    CASE v = 0  -> DOk(InsXY("I8XY0", x, y))
      [] v = 1  -> DOk(InsXY("I8XY1", x, y))
      [] v = 2  -> DOk(InsXY("I8XY2", x, y))
      [] v = 3  -> DOk(InsXY("I8XY3", x, y))
      [] v = 4  -> DOk(InsXY("I8XY4", x, y))
      [] v = 5  -> DOk(InsXY("I8XY5", x, y))
      [] v = 6  -> DOk(InsXY("I8XY6", x, y))
      [] v = 7  -> DOk(InsXY("I8XY7", x, y))
      [] v = 14 -> DOk(InsXY("I8XYE", x, y))
      [] OTHER  -> DErr

decode_9(x, y, n) ==
    IF n = 0 THEN DOk(InsXY("I9XY0", x, y)) ELSE DErr

decode_e(x, vv) ==
    CASE vv = 158 -> DOk(InsX("IEX9E", x))
      [] vv = 161 -> DOk(InsX("IEXA1", x))
      [] OTHER    -> DErr

decode_f(x, vv) ==
    CASE vv = 7   -> DOk(InsX("IFX07", x))
      [] vv = 10  -> DOk(InsX("IFX0A", x))
      [] vv = 21  -> DOk(InsX("IFX15", x))
      [] vv = 24  -> DOk(InsX("IFX18", x))
      [] vv = 30  -> DOk(InsX("IFX1E", x))
      [] vv = 41  -> DOk(InsX("IFX29", x))
      [] vv = 51  -> DOk(InsX("IFX33", x))
      [] vv = 85  -> DOk(InsX("IFX55", x))
      [] vv = 101 -> DOk(InsX("IFX65", x))
      [] OTHER    -> DErr

\* enum Error
InvalidInstruction(ins) == [e |-> "InvalidInstruction", ins |-> ins]
InvalidAlignment        == [e |-> "InvalidAlignment"]
StackOverflow           == [e |-> "StackOverflow"]

\* Result<T, Error>, and a panic (the call does not return)
Ok(v)  == [r |-> "Ok", v |-> v]
Err(e) == [r |-> "Err", e |-> e]
Panic  == [r |-> "Panic"]

\* The match of try_from on the nibbles of the opcode
decode_match(n) ==
    LET a == n[2]
        b == n[3]
        c == n[4]
    IN CASE n[1] = 0  -> decode_0(Address(a, b, c))
         [] n[1] = 1  -> DOk(InsA("I1NNN", Address(a, b, c)))
         [] n[1] = 2  -> DOk(InsA("I2NNN", Address(a, b, c)))
         [] n[1] = 3  -> DOk(InsXV("I3XNN", Register(a), Value8(b, c)))
         [] n[1] = 4  -> DOk(InsXV("I4XNN", Register(a), Value8(b, c)))
         [] n[1] = 5  -> decode_5(Register(a), Register(b), Value4(c))
         [] n[1] = 6  -> DOk(InsXV("I6XNN", Register(a), Value8(b, c)))
         [] n[1] = 7  -> DOk(InsXV("I7XNN", Register(a), Value8(b, c)))
         [] n[1] = 8  -> decode_8(Register(a), Register(b), Value4(c))
         [] n[1] = 9  -> decode_9(Register(a), Register(b), Value4(c))
         [] n[1] = 10 -> DOk(InsA("IANNN", Address(a, b, c)))
         [] n[1] = 11 -> DOk(InsA("IBNNN", Address(a, b, c)))
         [] n[1] = 12 -> DOk(InsXV("ICXNN", Register(a), Value8(b, c)))
         [] n[1] = 13 -> DOk(InsXYN("IDXYN", Register(a), Register(b), Value4(c)))
         [] n[1] = 14 -> decode_e(Register(a), Value8(b, c))
         [] n[1] = 15 -> decode_f(Register(a), Value8(b, c))
         [] OTHER     -> DErr

\* Mutant: the error reports the address part of the opcode only
map_err_address_only(d, ins) ==
    IF d.ok THEN Ok(d.ins) ELSE Err(InvalidInstruction(ins % 4096))

\* decoded.map_err(|_| Error::InvalidInstruction(ins))
map_err(d, ins) == IF d.ok THEN Ok(d.ins) ELSE Err(InvalidInstruction(ins))

\* u16::from_be_bytes
from_be_bytes(hi, lo) == hi * 256 + lo

\* impl TryFrom<&[u8]> for Instruction.  instruction[0..2] panics on a slice
\* shorter than two bytes; the conversion of a two-byte slice never fails.
try_from(instruction) ==
    IF Len(instruction) < 2 THEN Panic
    ELSE LET ins == from_be_bytes(instruction[1], instruction[2])
         IN map_err(decode_match(nibbles(ins)), ins)


-----------------------------------------------------------------------------
(* peripherals.rs: FallingEdges and Keys *)

\* Option<T>
None    == [some |-> FALSE]
Some(v) == [some |-> TRUE, v |-> v]

\* u16::BITS
U16_BITS == 16

\* Mutant: the loop runs from the highest bit down
RECURSIVE pop_scan_from_top(_, _)
pop_scan_from_top(e, k) ==
    IF k >= U16_BITS THEN [edges |-> e, idx |-> None]
    ELSE IF BitAnd(e, Shl(1, 15 - k, U16)) # 0
         THEN [edges |-> BitXor(e, Shl(1, 15 - k, U16)), idx |-> Some(15 - k)]
         ELSE pop_scan_from_top(e, k + 1)

\* The for loop of pop_next_idx from bit k on: the first set bit is cleared
\* (self.0 ^= bit) and its index returned.
RECURSIVE pop_scan(_, _)
pop_scan(e, k) ==
    IF k >= U16_BITS THEN [edges |-> e, idx |-> None]
    ELSE IF BitAnd(e, Shl(1, k, U16)) # 0
         THEN [edges |-> BitXor(e, Shl(1, k, U16)), idx |-> Some(k % U8)]
         ELSE pop_scan(e, k + 1)

\* FallingEdges::pop_next_idx: the new mask and the Option<u8> returned
pop_next_idx(e) ==
    IF e = 0 THEN [edges |-> e, idx |-> None] ELSE pop_scan(e, 0)

\* FallingEdges::push_edges
push_edges(e, edges) == BitOr(e, edges)

\* Keys::pressed: bit = 1 << idx on a u16.  A shift by 16 or more overflows:
\* a build with overflow checks panics, one without masks the shift amount.
pressed(keys, idx, bld) ==
    IF idx >= U16_BITS /\ bld = "debug" THEN Panic
    ELSE Ok(BitAnd(keys, Shl(1, idx % U16_BITS, U16)) # 0)

-----------------------------------------------------------------------------
(* core.rs: the machine *)

MemLen   == 4096
RegLen   == 16
StackLen == 16
PcStart  == 512
FONT_LEN == 5
VF       == 15

Font ==
    <<240, 144, 144, 144, 240,   32,  96,  32,  32, 112,
      240,  16, 240, 128, 240,  240,  16, 240,  16, 240,
      144, 144, 240,  16,  16,  240, 128, 240,  16, 240,
      240, 128, 240, 144, 240,  240,  16,  32,  64,  64,
      240, 144, 240, 144, 240,  240, 144, 240,  16, 240,
      240, 144, 240, 144, 144,  224, 144, 224, 144, 224,
      240, 128, 128, 128, 240,  224, 144, 144, 144, 224,
      240, 128, 240, 128, 240,  240, 128, 240, 128, 128>>

\* Mutant: the last byte of the source is left out
RECURSIVE copy_from_slice_short(_, _, _, _)
copy_from_slice_short(dst, at, src, k) ==
    IF k >= Len(src) THEN dst
    ELSE IF at + k - 1 \in DOMAIN dst
         THEN copy_from_slice_short([dst EXCEPT ![at + k - 1] = src[k]], at, src,
                                    k + 1)
         ELSE copy_from_slice_short(dst, at, src, k + 1)

\* dst[at..at + src.len()] = src, byte by byte from the k-th on
RECURSIVE copy_from_slice(_, _, _, _)
copy_from_slice(dst, at, src, k) ==
    IF k > Len(src) THEN dst
    ELSE IF at + k - 1 \in DOMAIN dst
         THEN copy_from_slice([dst EXCEPT ![at + k - 1] = src[k]], at, src, k + 1)
         ELSE copy_from_slice(dst, at, src, k + 1)

\* Core::load_font: loc[0..80].copy_from_slice(font)
load_font(loc) == copy_from_slice(loc, 0, Font, 1)

\* Core::new: the buffers are taken as supplied, only the font is written
new(m, rg, st) ==
    [mem |-> load_font(m), reg |-> rg, stack |-> st, i |-> 0, pc |-> PcStart, sp |-> 0]

\* util::load_program: the ROM bytes are copied to target[0x200..]
load_program(rom, target) ==
    LET room == Cardinality(DOMAIN target) - 512
        n    == IF Len(rom) < room THEN Len(rom) ELSE room
    IN copy_from_slice(target, 512, SubSeq(rom, 1, n), 1)

\* A step's outcome inside Core: the new machine and a Result or a panic
Step(c, res) == [c |-> c, res |-> res]

\* Mutant: the decremented stack pointer is used for the read but not stored
pop_keeps_sp(c, bld) ==
    IF c.sp = 0 /\ bld = "debug" THEN Step(c, Panic)
    ELSE LET sp1 == (c.sp + U8 - 1) % U8
         IN IF sp1 < StackLen THEN Step(c, Ok(c.stack[sp1]))
            ELSE Step(c, Err(StackOverflow))

\* Core::pop.  self.sp -= 1 comes first: with SP = 0 it overflows the u8, which
\* panics in a build with overflow checks and wraps to 255 in one without.
pop(c, bld) ==
    IF c.sp = 0 /\ bld = "debug" THEN Step(c, Panic)
    ELSE LET sp1 == (c.sp + U8 - 1) % U8
             c1  == [c EXCEPT !.sp = sp1]
         IN IF sp1 < StackLen THEN Step(c1, Ok(c.stack[sp1]))
            ELSE Step(c1, Err(StackOverflow))

\* Mutant: the capacity check is off by one
push_off_by_one(c, val, bld) ==
    IF c.sp > StackLen THEN Step(c, Err(StackOverflow))
    ELSE Step([c EXCEPT !.stack[c.sp] = val, !.sp = (c.sp + 1) % U8], Ok(<<>>))

\* Core::push.  The slot is looked up before anything is written.
push(c, val, bld) ==
    IF c.sp >= StackLen THEN Step(c, Err(StackOverflow))
    ELSE IF c.sp + 1 >= U8 /\ bld = "debug" THEN Step(c, Panic)
    ELSE Step([c EXCEPT !.stack[c.sp] = val, !.sp = (c.sp + 1) % U8], Ok(<<>>))

\* Mutant: the sum stops at the largest value instead of wrapping
overflowing_add_saturating(a, b, width) ==
    [val |-> IF a + b >= width THEN width - 1 ELSE a + b, carry |-> a + b >= width]

\* Mutant: a sum of exactly 2^8 is not reported as overflow
overflowing_add_late(a, b, width) ==
    [val |-> (a + b) % width, carry |-> a + b > width]

\* Mutant: equal operands are reported as a borrow
overflowing_sub_equal(a, b, width) ==
    [val |-> (a + width - b) % width, carry |-> a <= b]

\* Mutant: a product of exactly 2^8 is not reported as overflow
overflowing_mul_late(a, b, width) ==
    [val |-> (a * b) % width, carry |-> a * b > width]

\* u8::overflowing_add / overflowing_sub / overflowing_mul
overflowing_add(a, b, width) == [val |-> (a + b) % width, carry |-> a + b >= width]
overflowing_sub(a, b, width) == [val |-> (a + width - b) % width, carry |-> a < b]
overflowing_mul(a, b, width) == [val |-> (a * b) % width, carry |-> a * b >= width]

\* Mutant: the hundreds are not taken off before the tens are computed
bcd_keeps_hundreds(val) ==
    LET hundreds == val \div 100
        tens     == val \div 10
        v2       == val - tens * 10
    IN <<hundreds, tens, v2>>

\* fn bcd
bcd(val) ==
    LET hundreds == val \div 100
        v1       == val - hundreds * 100
        tens     == v1 \div 10
        v2       == v1 - tens * 10
    IN <<hundreds, tens, v2>>

\* enum ModPc
Hold      == [m |-> "Hold"]
Normal    == [m |-> "Normal"]
Skip(n)   == [m |-> "Skip", n |-> n]
Jump(a)   == [m |-> "Jump", pc |-> a]
Ret(a)    == [m |-> "Ret", pc |-> a]

\* Mutant: Skip(n) skips n bytes, not n instructions
update_pc_skip_bytes(p, pc_after, bld) ==
    CASE pc_after.m = "Hold"   -> Ok(p)
      [] pc_after.m = "Normal" -> Ok((p + 2) % U16)
      [] pc_after.m = "Skip"   -> Ok((p + 2 + pc_after.n) % U16)
      [] pc_after.m = "Jump"   -> Ok(pc_after.pc)
      [] pc_after.m = "Ret"    -> Ok((pc_after.pc + 2) % U16)

\* Mutant: Skip(n) advances by 2 * n, forgetting the instruction itself
update_pc_skip_short(p, pc_after, bld) ==
    CASE pc_after.m = "Hold"   -> Ok(p)
      [] pc_after.m = "Normal" -> Ok((p + 2) % U16)
      [] pc_after.m = "Skip"   -> Ok((p + 2 * pc_after.n) % U16)
      [] pc_after.m = "Jump"   -> Ok(pc_after.pc)
      [] pc_after.m = "Ret"    -> Ok((pc_after.pc + 2) % U16)

\* Mutant: Hold advances like Normal
update_pc_hold_advances(p, pc_after, bld) ==
    CASE pc_after.m = "Hold"   -> Ok((p + 2) % U16)
      [] pc_after.m = "Normal" -> Ok((p + 2) % U16)
      [] pc_after.m = "Skip"   -> Ok((p + 2 * (pc_after.n + 1)) % U16)
      [] pc_after.m = "Jump"   -> Ok(pc_after.pc)
      [] pc_after.m = "Ret"    -> Ok((pc_after.pc + 2) % U16)

\* Mutant: a jump target is truncated to 12 bits
update_pc_jump_12_bits(p, pc_after, bld) ==
    LET add(a, b) == IF a + b >= U16 /\ bld = "debug" THEN Panic
                     ELSE Ok((a + b) % U16)
    IN CASE pc_after.m = "Hold"   -> Ok(p)
         [] pc_after.m = "Normal" -> add(p, 2)
         [] pc_after.m = "Skip"   -> add(p, 2 * (pc_after.n + 1))
         [] pc_after.m = "Jump"   -> Ok(pc_after.pc % 4096)
         [] pc_after.m = "Ret"    -> add(pc_after.pc, 2)

\* "Update the program counter": the match on pc_after.  The additions are
\* u16 additions: on overflow a checked build panics, an unchecked one wraps.
update_pc(p, pc_after, bld) ==
    LET add(a, b) == IF a + b >= U16 /\ bld = "debug" THEN Panic
                     ELSE Ok((a + b) % U16)
    IN CASE pc_after.m = "Hold"   -> Ok(p)
         [] pc_after.m = "Normal" -> add(p, 2)
         [] pc_after.m = "Skip"   -> add(p, 2 * (pc_after.n + 1))
         [] pc_after.m = "Jump"   -> Ok(pc_after.pc)
         [] pc_after.m = "Ret"    -> add(pc_after.pc, 2)


\* Mutant: every instruction that completes ticks the delay timer as well
Out_ticks_delay(c, td, ts, pc_after, res, log) ==
    [c |-> c, td |-> IF res.r = "Ok" THEN (td + U8 - 1) % U8 ELSE td, ts |-> ts,
     pc_after |-> pc_after, res |-> res, log |-> log]

\* A match arm whose graphics.refresh() calls are left out
Out_without_refresh(c, td, ts, pc_after, res, log) ==
    [c |-> c, td |-> td, ts |-> ts, pc_after |-> pc_after, res |-> res,
     log |-> SelectSeq(log, LAMBDA e : e.f # "refresh")]

\* What one instruction leaves behind: the machine, the two timers, the
\* program-counter disposition, the Result, and the calls made on the
\* collaborators (graphics, randomness, keypad values, timers) in order.
Out(c, td, ts, pc_after, res, log) ==
    [c |-> c, td |-> td, ts |-> ts, pc_after |-> pc_after, res |-> res, log |-> log]

Unit == <<>>

\* unimplemented!() taken for a no-op
unimplemented_skips(c, td, ts) == Out(c, td, ts, Normal, Ok(Unit), <<>>)

\* unimplemented!(): the arm panics with nothing written
unimplemented(c, td, ts) == Out(c, td, ts, Normal, Panic, <<>>)

\* The match on the decoded instruction in Core::tick
execute(c, ins, keys, edges, td, ts, rnd, collided, bld) ==
    LET Vx         == c.reg[ins.x]
        Vy         == c.reg[ins.y]
        setx(v)    == [c EXCEPT !.reg[ins.x] = v]
        setf(c1, b) == [c1 EXCEPT !.reg[VF] = IF b THEN 1 ELSE 0]
        done(c1)   == Out(c1, td, ts, Normal, Ok(Unit), <<>>)
        skip_if(b) == Out(c, td, ts, IF b THEN Skip(1) ELSE Normal, Ok(Unit), <<>>)
        panic      == Out(c, td, ts, Normal, Panic, <<>>)
    IN CASE ins.op = "I0NNN" -> unimplemented(c, td, ts)
         [] ins.op = "I00E0" ->
              Out(c, td, ts, Normal, Ok(Unit), <<[f |-> "clear"], [f |-> "refresh"]>>)
         [] ins.op = "I00EE" ->
              LET p == pop(c, bld)
              IN IF p.res.r = "Ok"
                 THEN Out(p.c, td, ts, Ret(p.res.v), Ok(Unit), <<>>)
                 ELSE Out(p.c, td, ts, Normal, p.res, <<>>)
         [] ins.op = "I1NNN" -> Out(c, td, ts, Jump(ins.nnn), Ok(Unit), <<>>)
         [] ins.op = "I2NNN" ->
              LET p == push(c, c.pc, bld)
              IN IF p.res.r = "Ok"
                 THEN Out(p.c, td, ts, Jump(ins.nnn), Ok(Unit), <<>>)
                 ELSE Out(p.c, td, ts, Normal, p.res, <<>>)
         [] ins.op = "I3XNN" -> skip_if(Vx = ins.vv)
         [] ins.op = "I4XNN" -> skip_if(Vx # ins.vv)
         [] ins.op = "I5XY0" -> skip_if(Vx = Vy)
         [] ins.op = "I6XNN" -> done(setx(ins.vv))
         [] ins.op = "I7XNN" -> done(setx(overflowing_add(Vx, ins.vv, U8).val))
         [] ins.op = "I8XY0" -> done(setx(Vy))
         [] ins.op = "I8XY1" -> done(setx(BitOr(Vx, Vy)))
         [] ins.op = "I8XY2" -> done(setx(BitAnd(Vx, Vy)))
         [] ins.op = "I8XY3" -> done(setx(BitXor(Vx, Vy)))
         [] ins.op = "I8XY4" ->
              LET a == overflowing_add(Vx, Vy, U8)
              IN done(setf(setx(a.val), a.carry))
         [] ins.op = "I8XY5" ->
              LET a == overflowing_sub(Vx, Vy, U8)
              IN done(setf(setx(a.val), ~a.carry))
         [] ins.op = "I8XY6" ->
              LET c1 == [c EXCEPT !.reg[VF] = BitAnd(Vx, 1)]
              IN done([c1 EXCEPT !.reg[ins.x] = c1.reg[ins.x] \div 2])
         [] ins.op = "I8XY7" ->
              LET a == overflowing_sub(Vy, Vx, U8)
              IN done(setf(setx(a.val), ~a.carry))
         [] ins.op = "I8XYE" ->
              LET a == overflowing_mul(Vx, 2, U8)
              IN done(setf(setx(a.val), a.carry))
         [] ins.op = "I9XY0" -> skip_if(Vx # Vy)
         [] ins.op = "IANNN" -> done([c EXCEPT !.i = ins.nnn])
         [] ins.op = "IBNNN" -> Out(c, td, ts, Jump(ins.nnn + c.reg[0]), Ok(Unit), <<>>)
         [] ins.op = "ICXNN" ->
              Out(setx(BitAnd(rnd, ins.vv)), td, ts, Normal, Ok(Unit),
                  <<[f |-> "random", ret |-> rnd]>>)
         [] ins.op = "IDXYN" ->
              \* &self.mem[start..start + length] panics past the buffer's end
              IF c.i + ins.v > MemLen THEN panic
              ELSE LET sprite == [k \in 1..ins.v |-> c.mem[c.i + k - 1]]
                   IN Out(setf(c, collided), td, ts, Normal, Ok(Unit),
                          <<[f |-> "toggle_sprite", pos |-> <<Vx, Vy>>,
                             sprite |-> sprite, ret |-> collided],
                            [f |-> "refresh"]>>)
         [] ins.op = "IEX9E" ->
              LET k == pressed(keys, Vx, bld)
              IN IF k.r = "Panic" THEN panic
                 ELSE Out(c, td, ts, IF k.v THEN Skip(1) ELSE Normal, Ok(Unit),
                          <<[f |-> "pressed", keys |-> keys, idx |-> Vx, ret |-> k.v]>>)
         [] ins.op = "IEXA1" ->
              LET k == pressed(keys, Vx, bld)
              IN IF k.r = "Panic" THEN panic
                 ELSE Out(c, td, ts, IF ~k.v THEN Skip(1) ELSE Normal, Ok(Unit),
                          <<[f |-> "pressed", keys |-> keys, idx |-> Vx, ret |-> k.v]>>)
         [] ins.op = "IFX07" ->
              Out(setx(td), td, ts, Normal, Ok(Unit),
                  <<[f |-> "timer_delay.get", ret |-> td]>>)
         [] ins.op = "IFX0A" ->
              LET p == pop_next_idx(edges)
                  l == <<[f |-> "pop_next_idx", edges |-> edges, ret |-> p.idx]>>
              IN IF p.idx.some
                 THEN Out(setx(p.idx.v), td, ts, Normal, Ok(Unit), l)
                 ELSE Out(c, td, ts, Hold, Ok(Unit), l)
         [] ins.op = "IFX15" ->
              Out(c, Vx, ts, Normal, Ok(Unit), <<[f |-> "timer_delay.set", val |-> Vx]>>)
         [] ins.op = "IFX18" ->
              Out(c, td, Vx, Normal, Ok(Unit), <<[f |-> "timer_sound.set", val |-> Vx]>>)
         [] ins.op = "IFX1E" ->
              done([c EXCEPT !.i = overflowing_add(c.i, Vx, U16).val])
         [] ins.op = "IFX29" -> done([c EXCEPT !.i = Vx * FONT_LEN])
         [] ins.op = "IFX33" ->
              \* self.mem[self.i + 2] panics past the buffer's end
              IF c.i + 2 >= MemLen THEN panic
              ELSE LET d == bcd(Vx)
                   IN done([c EXCEPT !.mem[c.i] = d[1], !.mem[c.i + 1] = d[2],
                                     !.mem[c.i + 2] = d[3]])
         [] ins.op = "IFX55" ->
              IF c.i + ins.x >= MemLen THEN panic
              ELSE done([c EXCEPT !.mem =
                     copy_from_slice(c.mem, c.i,
                         [k \in 1..(ins.x + 1) |-> c.reg[Register(k - 1)]], 1)])
         [] ins.op = "IFX65" ->
              IF c.i + ins.x >= MemLen THEN panic
              ELSE done([c EXCEPT !.reg =
                     copy_from_slice(c.reg, 0,
                         [k \in 1..(ins.x + 1) |-> c.mem[c.i + k - 1]], 1)])

\* Instruction::try_from(&self.mem[self.pc as usize..]): the slice panics when
\* PC is past the buffer's end; try_from reads its first two bytes only.
fetch(c) ==
    IF c.pc > MemLen THEN Panic
    ELSE LET n == IF MemLen - c.pc < 2 THEN MemLen - c.pc ELSE 2
         IN try_from([k \in 1..n |-> c.mem[c.pc + k - 1]])

\* Core::tick: fetch and decode (an error returns at once), execute (an error
\* of pop or push returns at once), then update the program counter.
tick(c, keys, edges, td, ts, rnd, collided, bld) ==
    LET f == fetch(c)
        stop(res, c1) ==
            [c |-> c1, td |-> td, ts |-> ts, res |-> res, log |-> <<>>, ins |-> None]
    IN IF f.r = "Panic" THEN stop(Panic, c)
       ELSE IF f.r = "Err" THEN stop(f, c)
       ELSE LET e == execute(c, f.v, keys, edges, td, ts, rnd, collided, bld)
                p == update_pc(e.c.pc, e.pc_after, bld)
            IN IF e.res.r = "Panic" THEN [stop(Panic, c) EXCEPT !.ins = Some(f.v)]
               ELSE IF e.res.r = "Err"
                    THEN [stop(e.res, e.c) EXCEPT !.ins = Some(f.v)]
               ELSE IF p.r = "Panic" THEN [stop(Panic, c) EXCEPT !.ins = Some(f.v)]
               ELSE [c |-> [e.c EXCEPT !.pc = p.v], td |-> e.td, ts |-> e.ts,
                     res |-> e.res, log |-> e.log, ins |-> Some(f.v)]


-----------------------------------------------------------------------------
(* lib.rs: the driver step *)

\* DownTimer::tick stopping at zero instead of wrapping
timer_tick_saturating(val) ==
    [val |-> IF val = 0 THEN 0 ELSE val - 1, overflow |-> val = 0]

\* DownTimer::tick
timer_tick(val) ==
    LET a == overflowing_sub(val, 1, U8) IN [val |-> a.val, overflow |-> a.carry]

\* Chip8::new: timer_freq_div = core_freq / 60
freq_div(core_freq) == core_freq \div 60

\* Mutant: the divider counter advances before tick_core is called
chip8_tick_counts_first(c, div, count, keys, edges, td, ts, rnd, collided, bld) ==
    LET t  == tick(c, keys, edges, td, ts, rnd, collided, bld)
        n  == count + 1
    IN IF t.res.r # "Ok" THEN [t |-> t, count |-> n, ticked |-> FALSE]
       ELSE IF n >= div
            THEN [t |-> [t EXCEPT !.td = timer_tick(t.td).val,
                                  !.ts = timer_tick(t.ts).val],
                  count |-> 0, ticked |-> TRUE]
            ELSE [t |-> t, count |-> n, ticked |-> FALSE]

\* Mutant: the timers tick one step late, when the counter exceeds the divider
chip8_tick_late(c, div, count, keys, edges, td, ts, rnd, collided, bld) ==
    LET t  == tick(c, keys, edges, td, ts, rnd, collided, bld)
        n  == count + 1
    IN IF t.res.r # "Ok" THEN [t |-> t, count |-> count, ticked |-> FALSE]
       ELSE IF n > div
            THEN [t |-> [t EXCEPT !.td = timer_tick(t.td).val,
                                  !.ts = timer_tick(t.ts).val],
                  count |-> 0, ticked |-> TRUE]
            ELSE [t |-> t, count |-> n, ticked |-> FALSE]

\* Chip8::tick: tick_core()? returns an error at once; otherwise the divider
\* counter advances and, when it reaches the divider, both timers tick.
chip8_tick(c, div, count, keys, edges, td, ts, rnd, collided, bld) ==
    LET t  == tick(c, keys, edges, td, ts, rnd, collided, bld)
        n  == count + 1
    IN IF t.res.r # "Ok" THEN [t |-> t, count |-> count, ticked |-> FALSE]
       ELSE IF n >= div
            THEN [t |-> [t EXCEPT !.td = timer_tick(t.td).val,
                                  !.ts = timer_tick(t.ts).val],
                  count |-> 0, ticked |-> TRUE]
            ELSE [t |-> t, count |-> n, ticked |-> FALSE]

-----------------------------------------------------------------------------
(* The machine as a state machine *)

Self == [mem |-> mem, reg |-> reg, stack |-> stack, i |-> i, pc |-> pc, sp |-> sp]

Snapshot ==
    [mem |-> mem, reg |-> reg, stack |-> stack, i |-> i, pc |-> pc, sp |-> sp,
     timer_delay |-> timer_delay, timer_sound |-> timer_sound,
     timer_freq_count |-> timer_freq_count, calls |-> calls]

\* The call sites that are open after a step: a successful CALL opens one,
\* a successful RET closes the newest.
OpenCalls(t) ==
    IF t.res.r = "Ok" /\ t.ins.v.op = "I2NNN" THEN Append(calls, <<pc, sp>>)
    ELSE IF t.res.r = "Ok" /\ t.ins.v.op = "I00EE" /\ calls # <<>>
         THEN SubSeq(calls, 1, Len(calls) - 1)
    ELSE calls

\* A jump or call whose target is odd has been taken by this step
OddTarget(t) ==
    /\ t.res.r = "Ok"
    /\ \/ t.ins.v.op \in {"I1NNN", "I2NNN"} /\ t.ins.v.nnn % 2 = 1
       \/ t.ins.v.op = "IBNNN" /\ (t.ins.v.nnn + reg[0]) % 2 = 1

\* The machine, the timers and the record of the step, after a step t
Stepped(t) ==
    /\ mem' = t.c.mem
    /\ reg' = t.c.reg
    /\ stack' = t.c.stack
    /\ i' = t.c.i
    /\ pc' = t.c.pc
    /\ sp' = t.c.sp
    /\ timer_delay' = t.td
    /\ timer_sound' = t.ts
    /\ pre' = Snapshot
    /\ last' = [ins |-> t.ins, res |-> t.res, log |-> t.log]
    /\ halted' = (t.res.r = "Panic")
    /\ calls' = OpenCalls(t)
    /\ jumped_odd' = (jumped_odd \/ OddTarget(t))

\* Before the first step, and with no decoder or edge set under test
NoStep     == [ins |-> None, res |-> [r |-> "None"], log |-> <<>>]
NotDecoded == [r |-> "None"]
NoDecoder  == slice = <<>> /\ decoded = NotDecoded
NoEdges    == edgeset = 0 /\ edge0 = 0 /\ popped = <<None>>
NoPacing   == pace = [n |-> 0, timers |-> 0]
NoKeypad   == /\ keys_prev = 0 /\ keys_current = 0 /\ host = <<>>
              /\ frame = 0 /\ ticks = 0 /\ taken = <<>>
NoGraphics == buf = <<>> /\ draws = <<>>
NoThreads  == /\ buf_lock = Unused /\ changed = Unused /\ core_at = Unused
              /\ gui_at = Unused /\ gui_buffer = Unused /\ window = Unused
              /\ stop_gui = Unused

\* The values the collaborators may hand to a step
KeyInputs  == {0, 2, 32769}
EdgeInputs == {0, 16, 17, 32768}
RandInputs == {0, 165, 255}

\* The inputs a step can read: the keypad mask is read by EX9E and EXA1 only,
\* the falling-edge set by FX0A only, the random byte by CXNN only and the
\* collision flag by DXYN only.  An input the instruction at PC does not read
\* cannot change the step, so it is enumerated at one value.
StepInputs(c) ==
    LET f  == fetch(c)
        op == IF f.r = "Ok" THEN f.v.op ELSE "none"
    IN [keys     : IF op \in {"IEX9E", "IEXA1"} THEN KeyInputs ELSE {0},
        edges    : IF op = "IFX0A" THEN EdgeInputs ELSE {0},
        rnd      : IF op = "ICXNN" THEN RandInputs ELSE {0},
        collided : IF op = "IDXYN" THEN BOOLEAN ELSE {FALSE}]

\* One call of Core::tick
CoreTick ==
    /\ ~halted
    /\ \E in \in StepInputs(Self) :
          Stepped(tick(Self, in.keys, in.edges, timer_delay, timer_sound, in.rnd,
                       in.collided, build))
    /\ UNCHANGED <<timer_freq_div, timer_freq_count, build, decVars, edgeVars,
                   padVars, gfxVars, pace, thrVars>>

\* One call of Chip8::tick
\* The longest run of Chip8::tick calls that return Ok
MaxSteps == 24

Chip8Tick ==
    /\ ~halted
    /\ pace.n < MaxSteps
    /\ \E in \in StepInputs(Self) :
       \E s \in {chip8_tick(Self, timer_freq_div, timer_freq_count, in.keys,
                             in.edges, timer_delay, timer_sound, in.rnd,
                             in.collided, build)} :
          /\ Stepped(s.t)
          /\ timer_freq_count' = s.count
          /\ pace' = [n      |-> pace.n + (IF s.t.res.r = "Ok" THEN 1 ELSE 0),
                      timers |-> pace.timers + (IF s.ticked THEN 1 ELSE 0)]
    /\ UNCHANGED <<timer_freq_div, build, decVars, edgeVars, padVars, gfxVars,
                   thrVars>>

-----------------------------------------------------------------------------
(* Programs and initial states *)

\* An opcode from its four nibbles
W(a, b, c, d) == a * 4096 + b * 256 + c * 16 + d

\* A ROM image: each opcode is two bytes, big-endian
RECURSIVE RomBytes(_)
RomBytes(words) ==
    IF words = <<>> THEN <<>>
    ELSE <<Head(words) \div 256, Head(words) % 256>> \o RomBytes(Tail(words))

ZeroMem   == [a \in 0..(MemLen - 1) |-> 0]
ZeroReg   == [k \in 0..(RegLen - 1) |-> 0]
ZeroStack == [k \in 0..(StackLen - 1) |-> 0]

Builds == {"debug", "release"}

\* Register indices and values the probe programs use
RegProbe == 2
ProbeX   == (0..(RegProbe - 1)) \cup {15}
ProbeV   == {0, 1, 255}

\* Single-instruction programs over every instruction class
ProbeOps ==
    {0, W(0,0,14,0), W(0,0,14,14), W(0,3,0,0)}
    \cup {W(1,a,b,c) : <<a, b, c>> \in {<<2,0,0>>, <<2,0,3>>, <<2,0,6>>, <<15,15,15>>}}
    \cup {W(2,a,b,c) : <<a, b, c>> \in {<<2,0,0>>, <<2,0,4>>, <<2,0,5>>}}
    \cup {W(h, x, v \div 16, v % 16) : h \in {3, 4, 6, 7, 12}, x \in ProbeX, v \in ProbeV}
    \cup {W(h, x, y, 0) : h \in {5, 9}, x \in ProbeX, y \in ProbeX}
    \cup {W(5,0,1,1), W(9,0,1,2), W(8,0,1,8), W(14,0,0,0), W(15,0,0,0)}
    \cup {W(8, x, y, k) : x \in ProbeX, y \in ProbeX, k \in (0..7) \cup {14}}
    \cup {W(10,a,b,c) : <<a, b, c>> \in {<<0,0,0>>, <<3,0,1>>, <<15,15,15>>}}
    \cup {W(11,a,b,c) : <<a, b, c>> \in {<<2,0,0>>, <<2,0,1>>, <<15,15,15>>}}
    \cup {W(13, x, y, n) : x \in {0}, y \in {1}, n \in {0, 1, 5, 15}}
    \cup {W(14, x, 9, 14) : x \in ProbeX} \cup {W(14, x, 10, 1) : x \in ProbeX}
    \cup {W(15, x, v \div 16, v % 16) :
            x \in ProbeX, v \in {7, 10, 21, 24, 30, 41, 51, 85, 101}}

\* The registers a probe starts with: V0, V1 and VF vary, the others are zero
ProbeRegs ==
    {[k \in 0..(RegLen - 1) |->
        IF k = 0 THEN v[1] ELSE IF k = 1 THEN v[2] ELSE IF k = VF THEN v[3] ELSE 0] :
     v \in {<<0, 0, 0>>, <<0, 1, 0>>, <<1, 1, 1>>, <<255, 1, 0>>,
            <<1, 128, 1>>, <<255, 128, 1>>}}

\* k nested calls, each followed by its return; the innermost target returns
Nest(k) ==
    [j \in 1..(2 * k + 1) |->
        IF j = 2 * k + 1 \/ j % 2 = 0 THEN W(0,0,14,14)
        ELSE 8192 + PcStart + 2 * (j + 1)]

MaxNest == 3
NestDepths == (1..MaxNest) \cup {StackLen, StackLen + 1}

Programs ==
    {<<w>> : w \in ProbeOps}

Configs ==
    {[rom |-> r, reg |-> g] : r \in Programs, g \in ProbeRegs}
    \cup {[rom |-> Nest(k), reg |-> ZeroReg] : k \in NestDepths}

\* The machine as the emulator constructs it: the ROM is loaded into a zeroed
\* buffer, then Core::new is given the buffers
InitMachine(cfgs) ==
    /\ build \in Builds
    /\ \E cfg \in cfgs :
       \E rom \in {RomBytes(cfg.rom)} :
       \E loaded \in {load_program(rom, ZeroMem)} :
       \E c \in {new(loaded, cfg.reg, ZeroStack)} :
          /\ mem = c.mem
          /\ reg = c.reg
          /\ stack = c.stack
          /\ i = c.i
          /\ pc = c.pc
          /\ sp = c.sp
    /\ timer_delay = 0
    /\ timer_sound = 0
    /\ halted = FALSE
    /\ pre = Unused
    /\ last = NoStep
    /\ calls = <<>>
    /\ jumped_odd = FALSE
    /\ NoDecoder
    /\ NoEdges

\* The machine alone: no keypad adapter and no display behind it
InitCore(cfgs) ==
    InitMachine(cfgs) /\ NoKeypad /\ NoGraphics /\ NoPacing /\ NoThreads

\* Core::tick driven directly: the timers are handed in and never ticked
Init ==
    /\ InitCore(Configs)
    /\ timer_freq_div = Unused
    /\ timer_freq_count = Unused

Next == CoreTick

Spec == Init /\ [][Next]_vars

-----------------------------------------------------------------------------
(* Chip8::tick: the core behind the timer divider *)

\* emu.rs constructs Chip8 with core_freq = 700; 60 and 120 give the
\* dividers 1 and 2
CoreFreqs == {60, 120, 700}

Chip8Programs ==
    {<<0>>, <<W(1,2,0,0)>>, <<W(0,0,14,14)>>,
     <<W(6,0,0,3), W(15,0,1,5), W(15,0,1,8), W(15,1,0,7)>>,
     <<W(15,0,0,10), W(1,2,0,0)>>}

Chip8Configs == {[rom |-> r, reg |-> ZeroReg] : r \in Chip8Programs}

Chip8Init ==
    /\ InitCore(Chip8Configs)
    /\ \E core_freq \in CoreFreqs : timer_freq_div = freq_div(core_freq)
    /\ timer_freq_count = 0

Chip8Next == Chip8Tick

Chip8Spec == Chip8Init /\ [][Chip8Next]_vars

-----------------------------------------------------------------------------
(* The decoder alone, as the disassembler calls it *)

\* Every two-byte slice, and some shorter and longer ones
SliceInputs ==
    {<<hi, lo>> : hi \in 0..255, lo \in 0..255}
    \cup {<<>>, <<0>>, <<224>>, <<0, 224, 255>>}

NoMachine ==
    /\ mem = Unused /\ reg = Unused /\ stack = Unused
    /\ i = Unused /\ pc = Unused /\ sp = Unused
    /\ timer_delay = Unused /\ timer_sound = Unused
    /\ timer_freq_div = Unused /\ timer_freq_count = Unused
    /\ build = Unused /\ halted = TRUE /\ pre = Unused /\ last = NoStep
    /\ calls = <<>> /\ jumped_odd = FALSE

DecodeInit ==
    /\ slice \in SliceInputs
    /\ decoded = NotDecoded
    /\ NoMachine
    /\ NoEdges
    /\ NoKeypad
    /\ NoPacing
    /\ NoThreads
    /\ NoGraphics

\* Instruction::try_from(chunk)
Decode ==
    /\ decoded = NotDecoded
    /\ decoded' = try_from(slice)
    /\ UNCHANGED <<slice, coreVars, edgeVars, padVars, gfxVars, pace, thrVars>>

DecodeNext == Decode

DecodeSpec == DecodeInit /\ [][DecodeNext]_vars

-----------------------------------------------------------------------------
(* The falling-edge set alone, and the key-wait instruction that pops it *)

\* Bit k of a mask, and the set bits of a 16-bit mask
BitSet(m, k) == (m \div (2 ^ k)) % 2 = 1
Bits(m)      == {k \in 0..15 : BitSet(m, k)}

\* The masks FallingEdges starts from: every u16
EdgeMasks == 0..(U16 - 1)

\* The masks popped to the end: at most MaxBits bits set or at most MaxBits
\* bits clear.  Every other mask is popped once.
MaxBits == 3
DrainMasks ==
    {m \in EdgeMasks : \/ Cardinality(Bits(m)) <= MaxBits
                       \/ Cardinality(Bits(m)) >= U16_BITS - MaxBits}

\* Programs that wait for a key
KeyConfigs == {[rom |-> <<W(15, x, 0, 10)>>, reg |-> ZeroReg] : x \in ProbeX}

EdgeInit ==
    \/ /\ edgeset \in EdgeMasks
       /\ edge0 = edgeset
       /\ popped = <<>>
       /\ NoMachine
       /\ NoDecoder
       /\ NoKeypad
       /\ NoPacing
       /\ NoThreads
       /\ NoGraphics
    \/ /\ InitCore(KeyConfigs)
       /\ timer_freq_div = Unused
       /\ timer_freq_count = Unused

\* One call of pop_next_idx; the pops stop after the first None
PopNext ==
    /\ IF popped = <<>> THEN TRUE
       ELSE popped[Len(popped)].some /\ edge0 \in DrainMasks
    /\ LET p == pop_next_idx(edgeset)
       IN /\ edgeset' = p.edges
          /\ popped' = Append(popped, p.idx)
    /\ UNCHANGED <<edge0, coreVars, decVars, padVars, gfxVars, pace, thrVars>>

EdgeNext == PopNext \/ CoreTick

EdgeSpec == EdgeInit /\ [][EdgeNext]_vars


-----------------------------------------------------------------------------
(* The keypad adapter of the minifb front end between the GUI loop and Chip8 *)

\* Mutant: every key that changed counts, pressed or released
falling_edges_changed(before, after) == BitXor(before, after)

\* Keys::falling_edges: FallingEdges(self.0 & !after.0)
falling_edges(before, after) == BitAnd(before, (U16 - 1) - after)

\* Keys::update: self.0 = after.0; the edges are returned unless empty
update(before, after) ==
    LET edges == falling_edges(before, after)
    IN [keys |-> after, ret |-> IF edges = 0 THEN None ELSE Some(edges)]

\* KeypadAdapter::pressed_keys: a copy of current
pressed_keys(cur) == cur

\* KeypadAdapter::last_released_key: computed from prev and current, which it
\* leaves as they are
last_released_key(prv, cur) == falling_edges(prv, cur)

\* The arms of the match in map_keys that name a host key
KeyMap ==
    [Key1 |-> 1, Key2 |-> 2, Key3 |-> 3, Key4 |-> 12,
     Q |-> 4, W |-> 5, E |-> 6, R |-> 13,
     A |-> 7, S |-> 8, D |-> 9, F |-> 14,
     Z |-> 10, X |-> 0, C |-> 11, V |-> 15]

\* map_keys from the k-th key on: the match with its default arm, _ => 0x0,
\* then final_value |= 1 << val
RECURSIVE map_keys(_, _, _)
map_keys(keys, k, final_value) ==
    IF k > Len(keys) THEN final_value
    ELSE LET val == IF keys[k] \in DOMAIN KeyMap THEN KeyMap[keys[k]] ELSE 0
         IN map_keys(keys, k + 1, BitOr(final_value, Shl(1, val, U16)))

\* The keys get_keys_pressed reports in a frame: none, Q (key 4), X and Q
\* (keys 0 and 4), and P, which the match does not name
PadKeys == {<<>>, <<"Q">>, <<"X", "Q">>, <<"P">>}

\* Two key-waits one after the other
PadConfigs == {[rom |-> <<W(15,0,0,10), W(15,1,0,10)>>, reg |-> ZeroReg]}

MaxFrames == 3
MaxTicks  == 2

\* MinifbDisplay::new starts prev and current empty; emu.rs runs at 700 Hz
PadInit ==
    /\ InitMachine(PadConfigs)
    /\ timer_freq_div = freq_div(700)
    /\ timer_freq_count = 0
    /\ keys_prev = 0
    /\ keys_current = 0
    /\ host = <<>>
    /\ frame = 0
    /\ ticks = 0
    /\ taken = <<>>
    /\ NoGraphics
    /\ NoPacing
    /\ NoThreads

\* One iteration of the loop of MinifbDisplay::run: prev takes current,
\* current takes the keys of this frame
GuiFrame ==
    /\ frame < MaxFrames
    /\ \E pressed_now \in PadKeys :
          /\ keys_prev' = update(keys_prev, keys_current).keys
          /\ keys_current' = map_keys(pressed_now, 1, 0)
          /\ host' = pressed_now
    /\ frame' = frame + 1
    /\ ticks' = 0
    /\ UNCHANGED <<taken, coreVars, decVars, edgeVars, gfxVars, pace, thrVars>>

\* One call of Chip8::tick with the adapter as its keypad: tick_core asks it
\* for the pressed keys and the released keys, then calls Core::tick
PadTick ==
    /\ ~halted
    /\ ticks < MaxTicks
    /\ \E in \in StepInputs(Self) :
       \E keys \in {pressed_keys(keys_current)} :
       \E edges \in {last_released_key(keys_prev, keys_current)} :
       \E s \in {chip8_tick(Self, timer_freq_div, timer_freq_count, keys,
                             edges, timer_delay, timer_sound, in.rnd,
                             in.collided, build)} :
          /\ Stepped(s.t)
          /\ timer_freq_count' = s.count
          /\ taken' = IF /\ s.t.res.r = "Ok"
                         /\ s.t.ins.v.op = "IFX0A"
                         /\ s.t.log[1].ret.some
                      THEN Append(taken, <<frame, s.t.log[1].ret.v>>)
                      ELSE taken
    /\ ticks' = ticks + 1
    /\ UNCHANGED <<timer_freq_div, build, keys_prev, keys_current, host, frame,
                   decVars, edgeVars, gfxVars, pace, thrVars>>

PadNext == GuiFrame \/ PadTick

PadSpec == PadInit /\ [][PadNext]_vars

-----------------------------------------------------------------------------
(* The arithmetic instructions 8XY4..8XYE over boundary values *)

\* Operand registers: distinct, equal, and VF as source, as destination, as both
AluPairs == {<<0, 1>>, <<1, 0>>, <<1, 1>>, <<0, 15>>, <<15, 0>>, <<15, 15>>,
             <<1, 15>>, <<15, 1>>, <<2, 14>>}

\* Values around 0, the sign bit and 255
AluValues == {0, 1, 3, 127, 128, 254, 255}

AluOps == {4, 5, 6, 7, 14}

\* The register buffer handed to Core::new: Vx = a, Vy = b, the others zero
AluReg(x, y, a, b) ==
    [k \in 0..(RegLen - 1) |-> IF k = x THEN a ELSE IF k = y THEN b ELSE 0]

AluConfigs ==
    {[rom |-> <<W(8, xy[1], xy[2], k)>>, reg |-> AluReg(xy[1], xy[2], a, b)] :
        xy \in AluPairs, k \in AluOps, a \in AluValues, b \in AluValues}

AluInit ==
    /\ InitCore(AluConfigs)
    /\ timer_freq_div = Unused
    /\ timer_freq_count = Unused

AluNext == CoreTick

AluSpec == AluInit /\ [][AluNext]_vars

-----------------------------------------------------------------------------
(* FX33 over every register value *)

\* I as Core::new leaves it (0), set by ANNN to 0x300, and the last address
\* with three bytes left (0xFFD)
BcdPrograms ==
    {<<W(15, x, 3, 3)>> : x \in {0, 15}}
    \cup {<<W(10, a[1], a[2], a[3]), W(15, x, 3, 3)>> :
            a \in {<<3, 0, 0>>, <<15, 15, 13>>}, x \in {0, 15}}

BcdConfigs ==
    {[rom |-> r, reg |-> [k \in 0..(RegLen - 1) |-> v]] :
        r \in BcdPrograms, v \in 0..(U8 - 1)}

BcdInit ==
    /\ InitCore(BcdConfigs)
    /\ timer_freq_div = Unused
    /\ timer_freq_count = Unused

BcdNext == CoreTick

BcdSpec == BcdInit /\ [][BcdNext]_vars

-----------------------------------------------------------------------------
(* The display buffer of the minifb front end behind the Graphics adapter *)

\* The buffer holds SCALE x SCALE pixels per CHIP-8 pixel.  set_pixel and
\* reset_pixel write every pixel of a block with the same value and set_pixel
\* reads the block's first pixel, so the buffer is kept as one value per
\* block: the value at x + y * WIDTH is that of buffer[x_first + y_first *
\* WIDTH * SCALE].
WIDTH  == 64
HEIGHT == 32
Lit    == 16777215

Cell(x, y) == x + y * WIDTH

\* vec![0; width * height]
new_buffer == [c \in 0..(WIDTH * HEIGHT - 1) |-> 0]

\* set_pixel writing val over the block instead of XORing it in
set_pixel_or(buffer, x, y, on) ==
    LET val       == IF on THEN Lit ELSE 0
        collision == on /\ buffer[Cell(x, y)] # 0
    IN [buf |-> [buffer EXCEPT ![Cell(x, y)] = BitOr(@, val)], ret |-> collision]

\* set_pixel reporting a collision for an unlit bit too
set_pixel_any_bit(buffer, x, y, on) ==
    LET val       == IF on THEN Lit ELSE 0
        collision == buffer[Cell(x, y)] # 0
    IN [buf |-> [buffer EXCEPT ![Cell(x, y)] = BitXor(@, val)], ret |-> collision]

\* MinifbDisplay::set_pixel: the buffer after the call and the value returned
set_pixel(buffer, x, y, on) ==
    LET val       == IF on THEN Lit ELSE 0
        collision == on /\ buffer[Cell(x, y)] # 0
    IN [buf |-> [buffer EXCEPT ![Cell(x, y)] = BitXor(@, val)], ret |-> collision]

\* GraphicsAdapter::clear: reset_pixel on every (x, y) zeroes every block
clear(buffer) == [c \in DOMAIN buffer |-> 0]

\* The inner loop of toggle_sprite, for x in 0..8, from x on, in row y
RECURSIVE toggle_x(_, _, _, _, _, _)
toggle_x(buffer, pos, sprite, y, x, collision) ==
    IF x = 8 THEN [buf |-> buffer, ret |-> collision]
    ELSE LET x_pos      == (pos[1] + x) % WIDTH
             y_pos      == (pos[2] + y) % HEIGHT
             sprite_bit == BitAnd(Shr(sprite[y + 1], 7 - x), 1) = 1
             s          == set_pixel(buffer, x_pos, y_pos, sprite_bit)
         IN IF s.ret THEN toggle_x(s.buf, pos, sprite, y, x + 1, TRUE)
            ELSE toggle_x(s.buf, pos, sprite, y, x + 1, collision)

\* The outer loop of toggle_sprite, for y in 0..sprite.0.len(), from y on
RECURSIVE toggle_y(_, _, _, _, _)
toggle_y(buffer, pos, sprite, y, collision) ==
    IF y = Len(sprite) THEN [buf |-> buffer, ret |-> collision]
    ELSE LET row == toggle_x(buffer, pos, sprite, y, 0, collision)
         IN IF row.ret THEN toggle_y(row.buf, pos, sprite, y + 1, TRUE)
            ELSE toggle_y(row.buf, pos, sprite, y + 1, FALSE)

\* GraphicsAdapter::toggle_sprite
toggle_sprite(buffer, pos, sprite) == toggle_y(buffer, pos, sprite, 0, FALSE)

\* Pos(Vx, Vy) values: the origin, a neighbour that overlaps it, a corner
\* that wraps in both directions, and the largest register values
GfxPositions == {<<0, 0>>, <<4, 0>>, <<60, 30>>, <<255, 255>>}

\* Sprite(&mem[I..I + n]): a full row, rows with lit and unlit bits and an
\* empty row between them, and the longest sprite (15 rows of the font)
GfxSprites == {<<255>>, <<129, 0, 60>>, SubSeq(Font, 1, 15)}

\* Buffers the display can hold: as constructed, and with earlier drawings
GfxBuffers ==
    {new_buffer,
     toggle_sprite(new_buffer, <<2, 0>>, <<255, 255>>).buf}

MaxDraws == 2

GfxInit ==
    /\ buf \in GfxBuffers
    /\ draws = <<>>
    /\ NoMachine
    /\ NoDecoder
    /\ NoEdges
    /\ NoKeypad
    /\ NoPacing
    /\ NoThreads

\* One call of toggle_sprite, recorded with the buffer it found
ToggleSprite ==
    /\ Len(draws) < MaxDraws
    /\ \E pos \in GfxPositions, sprite \in GfxSprites :
         LET t == toggle_sprite(buf, pos, sprite)
         IN /\ buf' = t.buf
            /\ draws' = Append(draws, [pos |-> pos, sprite |-> sprite,
                                       before |-> buf, ret |-> t.ret])
    /\ UNCHANGED <<coreVars, decVars, edgeVars, padVars, pace, thrVars>>

\* One call of clear
ClearScreen ==
    /\ draws # <<>>
    /\ buf' = clear(buf)
    /\ draws' = <<>>
    /\ UNCHANGED <<coreVars, decVars, edgeVars, padVars, pace, thrVars>>

GfxNext == ToggleSprite \/ ClearScreen

GfxSpec == GfxInit /\ [][GfxNext]_vars

-----------------------------------------------------------------------------
(* Core::new on buffers of any length and content *)

\* The three assert!s of Core::new
new_asserts(m, rg, st) ==
    /\ Cardinality(DOMAIN m) >= 2048
    /\ Cardinality(DOMAIN rg) >= 16
    /\ Cardinality(DOMAIN st) >= 16

\* Buffers a caller can hand to Core::new: lengths around the asserted
\* minima and the emulator's 4096, zeroed or holding earlier contents
BufferInputs ==
    [mem   : {[a \in 0..(n - 1) |-> v] : n \in {2047, 2048, MemLen}, v \in {0, 255}},
     reg   : {[k \in 0..(n - 1) |-> v] : n \in {15, RegLen, 17}, v \in {0, 7}},
     stack : {[k \in 0..(n - 1) |-> v] : n \in {15, StackLen}, v \in {0, 546}}]

\* The buffers exist; no Core has been constructed from them yet
NewInit ==
    /\ \E b \in BufferInputs :
          /\ mem = b.mem
          /\ reg = b.reg
          /\ stack = b.stack
    /\ i = Unused /\ pc = Unused /\ sp = Unused
    /\ timer_delay = Unused /\ timer_sound = Unused
    /\ timer_freq_div = Unused /\ timer_freq_count = Unused
    /\ build = Unused /\ halted = TRUE /\ pre = Unused /\ last = NoStep
    /\ calls = <<>> /\ jumped_odd = FALSE
    /\ NoDecoder
    /\ NoEdges
    /\ NoKeypad
    /\ NoPacing
    /\ NoThreads
    /\ NoGraphics

\* One call of Core::new: a failed assert! panics before anything is written
CoreNew ==
    /\ last = NoStep
    /\ IF new_asserts(mem, reg, stack)
       THEN \E c \in {new(mem, reg, stack)} :
               /\ mem' = c.mem
               /\ reg' = c.reg
               /\ stack' = c.stack
               /\ i' = c.i
               /\ pc' = c.pc
               /\ sp' = c.sp
               /\ halted' = FALSE
               /\ last' = [NoStep EXCEPT !.res = Ok(Unit)]
       ELSE /\ last' = [NoStep EXCEPT !.res = Panic]
            /\ UNCHANGED <<mem, reg, stack, i, pc, sp, halted>>
    /\ UNCHANGED <<timer_delay, timer_sound, timer_freq_div, timer_freq_count,
                   build, pre, calls, jumped_odd, decVars, edgeVars, padVars,
                   gfxVars, pace, thrVars>>

NewNext == CoreNew

NewSpec == NewInit /\ [][NewNext]_vars

-----------------------------------------------------------------------------
(* One DownTimer under calls of tick, set and get *)

\* DownTimer::new: val is 0.  The timer is held in timer_delay; last.log
\* keeps the last two calls, each with the value before it
TimerInit ==
    /\ timer_delay = 0
    /\ last = NoStep
    /\ mem = Unused /\ reg = Unused /\ stack = Unused
    /\ i = Unused /\ pc = Unused /\ sp = Unused
    /\ timer_sound = Unused
    /\ timer_freq_div = Unused /\ timer_freq_count = Unused
    /\ build = Unused /\ halted = TRUE /\ pre = Unused
    /\ calls = <<>> /\ jumped_odd = FALSE
    /\ NoDecoder
    /\ NoEdges
    /\ NoKeypad
    /\ NoPacing
    /\ NoThreads
    /\ NoGraphics

\* The record of a call after the one before it
Called(call) ==
    /\ last' = [last EXCEPT !.log =
                  IF @ = <<>> THEN <<call>> ELSE <<@[Len(@)], call>>]
    /\ UNCHANGED <<mem, reg, stack, i, pc, sp, timer_sound, timer_freq_div,
                   timer_freq_count, build, halted, pre, calls, jumped_odd,
                   decVars, edgeVars, padVars, gfxVars, pace, thrVars>>

\* Timer::tick
TimerTick ==
    \E t \in {timer_tick(timer_delay)} :
        /\ timer_delay' = t.val
        /\ Called([f |-> "tick", before |-> timer_delay, ret |-> t.overflow])

\* Timer::set(val)
TimerSet ==
    \E val \in {0, 1, 128, 255} :
        /\ timer_delay' = val
        /\ Called([f |-> "set", before |-> timer_delay, ret |-> val])

\* Timer::get
TimerGet ==
    /\ timer_delay' = timer_delay
    /\ Called([f |-> "get", before |-> timer_delay, ret |-> timer_delay])

TimerNext == TimerTick \/ TimerSet \/ TimerGet

TimerSpec == TimerInit /\ [][TimerNext]_vars

-----------------------------------------------------------------------------
(* Keys::falling_edges and Keys::update on their own *)

\* Masks over the keys 0, 1, 4 and 15, every key, and alternating keys
KeyMasks ==
    {a + 2 * b + 16 * c + 32768 * d : a, b, c, d \in {0, 1}}
    \cup {U16 - 1, 43690, 21845}

KeysInit ==
    /\ keys_prev \in KeyMasks
    /\ keys_current = 0 /\ host = <<>> /\ frame = 0 /\ ticks = 0 /\ taken = <<>>
    /\ NoMachine
    /\ NoDecoder
    /\ NoEdges
    /\ NoGraphics
    /\ NoPacing
    /\ NoThreads

\* prev.falling_edges(&after), then prev.update(&after)
KeysUpdate ==
    /\ \E after \in KeyMasks :
       \E u \in {update(keys_prev, after)} :
          /\ keys_prev' = u.keys
          /\ last' = [NoStep EXCEPT !.log =
                        <<[f |-> "update", before |-> keys_prev, after |-> after,
                           edges |-> falling_edges(keys_prev, after),
                           ret |-> u.ret]>>]
    /\ UNCHANGED <<mem, reg, stack, i, pc, sp, timer_delay, timer_sound,
                   timer_freq_div, timer_freq_count, build, halted, pre, calls,
                   jumped_odd, keys_current, host, frame, ticks, taken, decVars,
                   edgeVars, gfxVars, pace, thrVars>>

KeysSpec == KeysInit /\ [][KeysUpdate]_vars

-----------------------------------------------------------------------------
(* Core::tick over programs of several instructions *)

\* FX15 on V0 and FX18 on V1, then one instruction of any class; and
\* I = 0xFFF followed by a loop of sixteen FX1E on V0 that ends when V1,
\* counting up, reaches 17: enough to carry I past 65535
SeqPrograms ==
    {<<W(15,0,1,5), W(15,1,1,8), w>> : w \in ProbeOps}
    \cup {<<W(10,15,15,15)>> \o [k \in 1..16 |-> W(15,0,1,14)]
            \o <<W(7,1,0,1), W(3,1,1,1), W(1,2,0,2)>>}

SeqInit ==
    /\ InitCore({[rom |-> r, reg |-> g] : r \in SeqPrograms, g \in ProbeRegs})
    /\ timer_freq_div = Unused
    /\ timer_freq_count = Unused

SeqSpec == SeqInit /\ [][CoreTick]_vars

-----------------------------------------------------------------------------
(* FX55 and FX65 at chosen values of I *)

\* I is set, the registers are stored and loaded again, or loaded alone; the
\* addresses are the font, free memory, the program's own third instruction,
\* the last 16 bytes of memory, and two bytes from its end
BulkPrograms ==
    {<<W(10, a[1], a[2], a[3]), W(15, x, 5, 5), W(15, x, 6, 5)>> :
        a \in {<<0, 0, 0>>, <<3, 0, 0>>, <<2, 0, 4>>, <<15, 15, 0>>, <<15, 15, 14>>},
        x \in {0, 1, 7, 15}}
    \cup {<<W(10, a[1], a[2], a[3]), W(15, x, 6, 5)>> :
            a \in {<<0, 0, 0>>, <<2, 0, 0>>}, x \in {0, 7, 15}}

\* Registers that all differ, and registers that are all 255
BulkConfigs ==
    {[rom |-> r, reg |-> g] :
        r \in BulkPrograms,
        g \in {[k \in 0..(RegLen - 1) |-> 16 * k + 1],
               [k \in 0..(RegLen - 1) |-> U8 - 1]}}

BulkInit ==
    /\ InitCore(BulkConfigs)
    /\ timer_freq_div = Unused
    /\ timer_freq_count = Unused

BulkSpec == BulkInit /\ [][CoreTick]_vars

-----------------------------------------------------------------------------
(* The display buffer between the emulator thread and the GUI thread *)

\* Mutant: a lock that is handed out while another thread holds it
lock_not_exclusive(m, who) == [ok |-> TRUE, m |-> who]

\* Mutex::lock: the caller gets the mutex when no thread holds it and waits
\* otherwise
lock(m, who) ==
    IF m = "free" THEN [ok |-> TRUE, m |-> who] ELSE [ok |-> FALSE, m |-> m]

\* Mutant: a swap that returns the value it stores
swap_returns_new(flag, val) == [ret |-> val, flag |-> val]

\* AtomicBool::swap: stores val and returns the value it replaced
swap(flag, val) == [ret |-> flag, flag |-> val]

\* One iteration of the outer loop of clear, for x in 0..WIDTH: reset_pixel
\* on every block of column x
reset_column(buffer, x) ==
    [c \in DOMAIN buffer |-> IF c % WIDTH = x THEN 0 ELSE buffer[c]]

\* The calls the core makes on the adapter: IDXYN calls toggle_sprite, I00E0
\* calls clear, and each calls refresh next.  The program draws a sprite,
\* clears, draws another sprite and goes round again.
DisplayCalls ==
    <<[f |-> "toggle_sprite", pos |-> <<0, 0>>, sprite |-> <<255>>],
      [f |-> "clear"],
      [f |-> "toggle_sprite", pos |-> <<60, 30>>, sprite |-> <<129, 0, 60>>]>>

\* The longest sequence of calls the emulator thread makes
MaxCalls == 2

\* The emulator thread between two calls
Idle == [at |-> "idle", call |-> [f |-> "none"], k |-> 0, collision |-> FALSE]

\* The iterations of the outer loop of a call
Iterations(call) == IF call.f = "clear" THEN WIDTH ELSE Len(call.sprite)

\* The calls whose effect on the buffer is complete
Completed ==
    IF core_at.at \in {"toggle_sprite", "clear"} THEN Len(draws) - 1
    ELSE Len(draws)

\* MinifbDisplay::new: a zeroed buffer, changed = false; the window is black
DisplayInit ==
    /\ buf = new_buffer
    /\ draws = <<>>
    /\ buf_lock = "free"
    /\ changed = FALSE
    /\ core_at = Idle
    /\ gui_at = "swap"
    /\ gui_buffer = [buffer |-> new_buffer, calls |-> 0]
    /\ window = [buffer |-> new_buffer, calls |-> 0]
    /\ stop_gui = Unused
    /\ NoMachine
    /\ NoDecoder
    /\ NoEdges
    /\ NoKeypad
    /\ NoPacing

\* toggle_sprite and clear begin by locking the buffer.  The thread makes
\* the calls of its program in their order.
CoreLock ==
    /\ core_at.at = "idle"
    /\ Len(draws) < MaxCalls
    /\ \E n \in {(Len(draws) % Len(DisplayCalls)) + 1} :
       \E l \in {lock(buf_lock, "core")} :
          /\ l.ok
          /\ buf_lock' = l.m
          /\ core_at' = [at |-> DisplayCalls[n].f, call |-> DisplayCalls[n],
                         k |-> 0, collision |-> FALSE]
          /\ draws' = Append(draws, [call |-> DisplayCalls[n], before |-> buf])
    /\ UNCHANGED <<buf, changed, gui_at, gui_buffer, window, stop_gui, coreVars,
                   decVars, edgeVars, padVars, pace>>

\* One iteration of the outer loop of the call: a row of the sprite is
\* toggled, or a column is reset
CoreLoop ==
    /\ core_at.at \in {"toggle_sprite", "clear"}
    /\ core_at.k < Iterations(core_at.call)
    /\ IF core_at.at = "clear"
       THEN /\ buf' = reset_column(buf, core_at.k)
            /\ core_at' = [core_at EXCEPT !.k = @ + 1]
       ELSE \E row \in {toggle_x(buf, core_at.call.pos, core_at.call.sprite,
                                 core_at.k, 0, core_at.collision)} :
               /\ buf' = row.buf
               /\ core_at' = [core_at EXCEPT !.k = @ + 1, !.collision = row.ret]
    /\ UNCHANGED <<draws, buf_lock, changed, gui_at, gui_buffer, window, stop_gui,
                   coreVars, decVars, edgeVars, padVars, pace>>

\* The call returns and the guard is dropped; refresh is called next
CoreReturn ==
    /\ core_at.at \in {"toggle_sprite", "clear"}
    /\ core_at.k = Iterations(core_at.call)
    /\ buf_lock' = "free"
    /\ core_at' = [core_at EXCEPT !.at = "refresh"]
    /\ UNCHANGED <<gfxVars, changed, gui_at, gui_buffer, window, stop_gui,
                   coreVars, decVars, edgeVars, padVars, pace>>

\* GraphicsAdapter::refresh: changed.store(true)
CoreRefresh ==
    /\ core_at.at = "refresh"
    /\ changed' = TRUE
    /\ core_at' = Idle
    /\ UNCHANGED <<gfxVars, buf_lock, gui_at, gui_buffer, window, stop_gui,
                   coreVars, decVars, edgeVars, padVars, pace>>

\* run: changed.swap(false); the buffer is copied only if it was true,
\* otherwise window.update() shows what it showed and the loop goes round
GuiSwap ==
    /\ gui_at = "swap"
    /\ \E s \in {swap(changed, FALSE)} :
          /\ changed' = s.flag
          /\ gui_at' = IF s.ret THEN "lock" ELSE "swap"
    /\ UNCHANGED <<gfxVars, buf_lock, core_at, gui_buffer, window, stop_gui,
                   coreVars, decVars, edgeVars, padVars, pace>>

\* run: buffer.buf.lock()
GuiLock ==
    /\ gui_at = "lock"
    /\ \E l \in {lock(buf_lock, "gui")} :
          /\ l.ok
          /\ buf_lock' = l.m
    /\ gui_at' = "clone"
    /\ UNCHANGED <<gfxVars, changed, core_at, gui_buffer, window, stop_gui,
                   coreVars, decVars, edgeVars, padVars, pace>>

\* run: .clone(), and the guard is dropped at the end of the block
GuiClone ==
    /\ gui_at = "clone"
    /\ gui_buffer' = [buffer |-> buf, calls |-> Completed]
    /\ buf_lock' = "free"
    /\ gui_at' = "update"
    /\ UNCHANGED <<gfxVars, changed, core_at, window, stop_gui, coreVars, decVars,
                   edgeVars, padVars, pace>>

\* run: window.update_with_buffer(&buffer, ..)
GuiUpdate ==
    /\ gui_at = "update"
    /\ window' = gui_buffer
    /\ gui_at' = "swap"
    /\ UNCHANGED <<gfxVars, buf_lock, changed, core_at, gui_buffer, stop_gui,
                   coreVars, decVars, edgeVars, padVars, pace>>

DisplayNext ==
    \/ CoreLock \/ CoreLoop \/ CoreReturn \/ CoreRefresh
    \/ GuiSwap \/ GuiLock \/ GuiClone \/ GuiUpdate

\* Both threads keep running: a call that has begun runs to its refresh, and
\* the GUI loop keeps iterating and gets the lock it waits for
DisplaySpec ==
    /\ DisplayInit
    /\ [][DisplayNext]_vars
    /\ WF_vars(CoreLoop \/ CoreReturn \/ CoreRefresh)
    /\ WF_vars(GuiSwap \/ GuiClone \/ GuiUpdate)
    /\ SF_vars(GuiLock)

-----------------------------------------------------------------------------
(* emu.rs: the emulator thread, the GUI loop and the stop channel *)

\* Receiver::try_recv: a message if one is queued; otherwise an error, Empty
\* while the sender lives and Disconnected once it was dropped
try_recv(ch) ==
    IF ch.queue > 0 THEN Ok(Unit)
    ELSE Err(IF ch.tx THEN "Empty" ELSE "Disconnected")

\* ROMs whose run ends with Err, ends with a panic in both builds
\* (0NNN is unimplemented!()), or never ends
EmuPrograms == Chip8Programs \cup {<<W(0,3,0,0)>>}

\* main: the machine is constructed at 700 Hz, the thread is spawned and the
\* GUI loop starts; no key is pressed and nothing is shown in this
\* specification
EmuInit ==
    /\ InitMachine({[rom |-> r, reg |-> ZeroReg] : r \in EmuPrograms})
    /\ timer_freq_div = freq_div(700)
    /\ timer_freq_count = 0
    /\ core_at = [at |-> "run"]
    /\ gui_at = "loop"
    /\ stop_gui = [queue |-> 0, tx |-> TRUE]
    /\ buf_lock = Unused /\ changed = Unused
    /\ gui_buffer = Unused /\ window = Unused
    /\ NoKeypad
    /\ NoGraphics
    /\ NoPacing

\* One iteration of the loop of Chip8::run: self.tick()? leaves the loop
\* with the error; a panic unwinds the thread, which drops the sender
EmuRun ==
    /\ core_at.at = "run"
    /\ pace.n < MaxSteps
    /\ \E in \in StepInputs(Self) :
       \E keys \in {pressed_keys(keys_current)} :
       \E edges \in {last_released_key(keys_prev, keys_current)} :
       \E s \in {chip8_tick(Self, timer_freq_div, timer_freq_count, keys,
                             edges, timer_delay, timer_sound, in.rnd,
                             in.collided, build)} :
          /\ Stepped(s.t)
          /\ timer_freq_count' = s.count
          /\ pace' = [n      |-> pace.n + (IF s.t.res.r = "Ok" THEN 1 ELSE 0),
                      timers |-> pace.timers + (IF s.ticked THEN 1 ELSE 0)]
          /\ core_at' = [at |-> CASE s.t.res.r = "Ok"    -> "run"
                                  [] s.t.res.r = "Err"   -> "failed"
                                  [] s.t.res.r = "Panic" -> "panicked"]
          /\ stop_gui' = [stop_gui EXCEPT !.tx = s.t.res.r # "Panic"]
    /\ UNCHANGED <<timer_freq_div, build, decVars, edgeVars, padVars, gfxVars,
                   buf_lock, changed, gui_at, gui_buffer, window>>

\* The closure after run returned Err(e): tx_stop_gui.send(()), then the
\* thread ends and the sender is dropped
EmuSend ==
    /\ core_at.at = "failed"
    /\ core_at' = [at |-> "exited"]
    /\ stop_gui' = [queue |-> stop_gui.queue + 1, tx |-> FALSE]
    /\ UNCHANGED <<coreVars, decVars, edgeVars, padVars, gfxVars, pace, buf_lock,
                   changed, gui_at, gui_buffer, window>>

\* One iteration of the loop of MinifbDisplay::run: if let Ok(()) =
\* stop.try_recv() returns; on either error the loop goes on
GuiIterate ==
    /\ gui_at = "loop"
    /\ \E r \in {try_recv(stop_gui)} :
          IF r.r = "Ok"
          THEN /\ gui_at' = "returned"
               /\ stop_gui' = [stop_gui EXCEPT !.queue = @ - 1]
          ELSE UNCHANGED <<gui_at, stop_gui>>
    /\ UNCHANGED <<coreVars, decVars, edgeVars, padVars, gfxVars, pace, buf_lock,
                   changed, core_at, gui_buffer, window>>

EmuNext == EmuRun \/ EmuSend \/ GuiIterate

EmuSpec == EmuInit /\ [][EmuNext]_vars

-----------------------------------------------------------------------------
(* Properties *)

\* The last step executed an instruction of one of the given variants
Executed(ops) == last.ins.some /\ last.ins.v.op \in ops

Lowest(S)    == CHOOSE k \in S : \A j \in S : k <= j

\* C1: decoding is total.  For every two-byte big-endian opcode try_from
\* returns either one instruction variant or Err(InvalidInstruction(op)) with
\* op the very opcode given; it never panics.
C1_DecodeTotal ==
    (decoded.r # "None" /\ Len(slice) = 2) =>
        \/ decoded.r = "Ok" /\ decoded.v.op \in Variants
        \/ decoded.r = "Err"
           /\ decoded.e = InvalidInstruction(slice[1] * 256 + slice[2])

\* An invalid opcode whose top nibble is not zero has been decoded
C1_Witness ==
    /\ slice = <<255, 255>>
    /\ decoded.r = "Err"
    /\ decoded.e.ins = 65535

\* C2: when the opcode at PC does not decode, the step returns
\* Err(InvalidInstruction(opcode)), leaves PC, I, SP, the registers, memory
\* and the stack unchanged, calls neither the graphics sink nor a timer, and
\* Chip8::tick does not advance its timer-divider counter.
C2_InvalidOpcodeNoEffect ==
    (/\ last.res.r # "None"
     /\ pre.pc + 1 < MemLen
     /\ try_from(<<pre.mem[pre.pc], pre.mem[pre.pc + 1]>>).r = "Err") =>
        /\ last.res = Err(InvalidInstruction(pre.mem[pre.pc] * 256 + pre.mem[pre.pc + 1]))
        /\ pc = pre.pc /\ i = pre.i /\ sp = pre.sp
        /\ reg = pre.reg /\ mem = pre.mem /\ stack = pre.stack
        /\ last.log = <<>>
        /\ timer_delay = pre.timer_delay /\ timer_sound = pre.timer_sound
        /\ timer_freq_count = pre.timer_freq_count

\* A step failed on an invalid opcode after the divider counter had advanced
C2_Witness ==
    /\ last.res.r = "Err"
    /\ last.res.e.e = "InvalidInstruction"
    /\ timer_freq_count = 4
    /\ pc = PcStart + 8

\* C3 as stated: the program counter is even after every step, whatever the
\* jump and call targets are.
C3_PcAlwaysEven == pc % 2 = 0

\* C3 as amended: the program counter is even after every step as long as no
\* jump or call to an odd address (1NNN or 2NNN with NNN odd, BNNN with
\* NNN + V0 odd) has been taken.
C3_PcEvenUntilOddJump == ~jumped_odd => pc % 2 = 0

\* A jump, a call or a return has been taken to an even address
C3_Witness ==
    /\ Executed({"I1NNN", "I2NNN", "IBNNN", "I00EE"})
    /\ last.res.r = "Ok"
    /\ ~jumped_odd
    /\ pc # pre.pc

\* C4: the stack pointer stays within 0..16 in every reachable state, also
\* after a step that fails with StackOverflow.
C4_SpInRange == sp \in 0..StackLen

\* C5: a RET executed with an empty call stack returns Err(StackOverflow) and
\* does not change PC.
C5_RetOnEmptyStack ==
    (Executed({"I00EE"}) /\ pre.sp = 0) =>
        /\ last.res = Err(StackOverflow)
        /\ pc = pre.pc

\* C6: a CALL executed with 16 return addresses on the stack returns
\* Err(StackOverflow) and leaves PC, SP and every stack slot unchanged; a CALL
\* with fewer than 16 on the stack succeeds.
C6_CallOnFullStack ==
    Executed({"I2NNN"}) =>
        /\ pre.sp = StackLen =>
              /\ last.res = Err(StackOverflow)
              /\ pc = pre.pc /\ sp = pre.sp /\ stack = pre.stack
        /\ pre.sp < StackLen => last.res.r = "Ok" /\ sp = pre.sp + 1

\* The seventeenth nested call has failed after sixteen that succeeded
C6_Witness ==
    /\ Executed({"I2NNN"})
    /\ pre.sp = StackLen
    /\ Len(calls) = StackLen
    /\ last.res = Err(StackOverflow)

\* C7: call and return are matched in LIFO order.  A CALL NNN at address A
\* stores A in the stack slot SP, increments SP and sets PC = NNN; a RET
\* decrements SP, and the RET matching a CALL made at A with stack pointer S
\* sets PC = A + 2 and SP = S.
C7_CallReturnLifo ==
    /\ (Executed({"I2NNN"}) /\ last.res.r = "Ok") =>
          /\ stack[pre.sp] = pre.pc
          /\ sp = pre.sp + 1
          /\ pc = last.ins.v.nnn
          /\ calls = Append(pre.calls, <<pre.pc, pre.sp>>)
    /\ (Executed({"I00EE"}) /\ last.res.r = "Ok") =>
          /\ sp = pre.sp - 1
          /\ pre.calls # <<>> =>
                /\ pc = pre.calls[Len(pre.calls)][1] + 2
                /\ sp = pre.calls[Len(pre.calls)][2]

\* Sixteen nested calls have been followed by sixteen returns: execution is
\* back after the outermost call with SP = 0
C7_Witness ==
    /\ Executed({"I00EE"})
    /\ last.res.r = "Ok"
    /\ pre.calls = <<<<PcStart, 0>>>>
    /\ stack[StackLen - 1] = PcStart + 4 * (StackLen - 1)
    /\ pc = PcStart + 2
    /\ sp = 0

\* The condition of a skip instruction, on the registers before the step
SkipCondition(ins, r) ==
    CASE ins.op = "I3XNN" -> r[ins.x] = ins.vv
      [] ins.op = "I4XNN" -> r[ins.x] # ins.vv
      [] ins.op = "I5XY0" -> r[ins.x] = r[ins.y]
      [] ins.op = "I9XY0" -> r[ins.x] # r[ins.y]

\* C8: a skip instruction (3XNN, 4XNN, 5XY0, 9XY0) advances PC by exactly 4
\* when its condition holds and by exactly 2 when it does not, and changes no
\* register, I, SP or memory.
C8_SkipAdvance ==
    Executed({"I3XNN", "I4XNN", "I5XY0", "I9XY0"}) =>
        /\ last.res.r = "Ok"
        /\ pc = pre.pc + (IF SkipCondition(last.ins.v, pre.reg) THEN 4 ELSE 2)
        /\ reg = pre.reg /\ i = pre.i /\ sp = pre.sp /\ mem = pre.mem

\* A skip on two different registers holding equal values has been taken
C8_Witness ==
    /\ Executed({"I5XY0"})
    /\ last.ins.v.x # last.ins.v.y
    /\ pre.reg[last.ins.v.x] = 1
    /\ pc = pre.pc + 4

\* C9: a step that executes FX0A with an empty falling-edge set returns Ok,
\* leaves PC, the registers, I, SP and memory unchanged, and the instruction
\* at PC is the same FX0A again.
C9_KeyWaitHold ==
    (Executed({"IFX0A"}) /\ last.log[1].edges = 0) =>
        /\ last.res.r = "Ok"
        /\ pc = pre.pc /\ reg = pre.reg /\ i = pre.i /\ sp = pre.sp
        /\ mem = pre.mem
        /\ fetch(Self) = Ok(last.ins.v)

\* A key-wait has held its place
C9_Witness ==
    /\ Executed({"IFX0A"})
    /\ last.log[1].edges = 0
    /\ last.log[1].ret = None
    /\ pc = pre.pc

\* The indices popped so far
PoppedIdx(n) == {popped[m].v : m \in {m \in 1..n : popped[m].some}}

\* C10: falling edges are popped lowest index first.  Each pop returns the
\* lowest bit still set of the original mask and clears exactly that bit, so
\* the pops are strictly ascending, each set bit once, and None comes only
\* when every bit has been popped; a step executing FX0A with a non-empty edge
\* set stores the lowest index (0..15) into Vx and advances PC by 2.
C10_PopLowestFirst ==
    /\ \A n \in 1..Len(popped) :
          IF popped[n].some
          THEN /\ Bits(edge0) \ PoppedIdx(n - 1) # {}
               /\ popped[n].v = Lowest(Bits(edge0) \ PoppedIdx(n - 1))
          ELSE n = Len(popped) /\ PoppedIdx(n) = Bits(edge0)
    /\ Bits(edgeset) = Bits(edge0) \ PoppedIdx(Len(popped))
    /\ edgeset \in 0..(U16 - 1)
    /\ (Executed({"IFX0A"}) /\ last.log[1].edges # 0) =>
          /\ last.res.r = "Ok"
          /\ reg[last.ins.v.x] = Lowest(Bits(last.log[1].edges))
          /\ reg[last.ins.v.x] \in 0..15
          /\ pc = pre.pc + 2

\* The mask 0x8011 has been popped to the end: 0, 4, 15, then None
C10_Witness ==
    /\ edge0 = 32785
    /\ popped = <<Some(0), Some(4), Some(15), None>>
    /\ edgeset = 0


\* C11: a key release is consumed destructively across steps.  A release
\* observed in one frame that has completed one key-wait is not delivered to a
\* later step: no two completed key-waits took the same key of the same frame.
C11_ReleaseTakenOnce ==
    \A a \in 1..Len(taken) : \A b \in 1..Len(taken) :
        a # b => taken[a] # taken[b]

\* The operands of the last step and the values they held before it
OpX  == last.ins.v.x
OpY  == last.ins.v.y
OldX == pre.reg[last.ins.v.x]
OldY == pre.reg[last.ins.v.y]

\* C12: add-with-carry (8XY4).  After the step VF = 1 if old Vx + old Vy > 255
\* and 0 otherwise, also when x or y is 15; for x # 15 the new Vx is
\* (old Vx + old Vy) mod 256; PC advances by 2.
C12_AddCarry ==
    Executed({"I8XY4"}) =>
        /\ last.res.r = "Ok"
        /\ reg[VF] = (IF OldX + OldY > 255 THEN 1 ELSE 0)
        /\ OpX # VF => reg[OpX] = (OldX + OldY) % 256
        /\ pc = pre.pc + 2

\* 0xFF + 0x01 on two different registers has left 0x00 and VF = 1
C12_Witness ==
    /\ Executed({"I8XY4"})
    /\ OpX = 0 /\ OpY = 1
    /\ OldX = 255 /\ OldY = 1
    /\ reg[0] = 0 /\ reg[VF] = 1

\* C13: subtract (8XY5) and reverse subtract (8XY7).  8XY5 leaves VF = 1 iff
\* old Vx >= old Vy and Vx = (old Vx - old Vy) mod 256; 8XY7 leaves VF = 1 iff
\* old Vy >= old Vx and Vx = (old Vy - old Vx) mod 256; the Vx result is
\* stated for x # 15.
C13_SubBorrow ==
    /\ Executed({"I8XY5"}) =>
          /\ last.res.r = "Ok"
          /\ reg[VF] = (IF OldX >= OldY THEN 1 ELSE 0)
          /\ OpX # VF => reg[OpX] = (OldX - OldY) % 256
    /\ Executed({"I8XY7"}) =>
          /\ last.res.r = "Ok"
          /\ reg[VF] = (IF OldY >= OldX THEN 1 ELSE 0)
          /\ OpX # VF => reg[OpX] = (OldY - OldX) % 256

\* A reverse subtract with a borrow: 1 - 3 has left 254 and VF = 0
C13_Witness ==
    /\ Executed({"I8XY7"})
    /\ OpX = 1 /\ OpY = 0
    /\ OldX = 3 /\ OldY = 1
    /\ reg[1] = 254 /\ reg[VF] = 0

\* C14: shift right (8XY6).  For every x in 0..15, after the step VF is bit 0
\* of the value Vx held before it; for x # 15 the new Vx is old Vx div 2; Vy
\* is not changed.
C14_ShiftRight ==
    Executed({"I8XY6"}) =>
        /\ last.res.r = "Ok"
        /\ reg[VF] = OldX % 2
        /\ OpX # VF => reg[OpX] = OldX \div 2
        /\ OpY \notin {OpX, VF} => reg[OpY] = OldY

\* C15: shift left (8XYE).  For every x, after the step VF = 1 iff bit 7 of
\* the old Vx was set and 0 otherwise; for x # 15 the new Vx is
\* (2 * old Vx) mod 256.
C15_ShiftLeft ==
    Executed({"I8XYE"}) =>
        /\ last.res.r = "Ok"
        /\ reg[VF] = (IF OldX >= 128 THEN 1 ELSE 0)
        /\ OpX # VF => reg[OpX] = (2 * OldX) % 256

\* 0x80 shifted left has left 0x00 and VF = 1, the other register untouched
C15_Witness ==
    /\ Executed({"I8XYE"})
    /\ OpX = 0 /\ OpY = 1
    /\ OldX = 128 /\ OldY = 3
    /\ reg[0] = 0 /\ reg[1] = 3 /\ reg[VF] = 1

\* C16: BCD.  For every v in 0..255 the FX33 step writes h, t, o with
\* h * 100 + t * 10 + o = v, h in 0..2 and t, o in 0..9 to memory[I],
\* memory[I + 1], memory[I + 2], changes no other memory byte and leaves I and
\* all registers unchanged.
C16_Bcd ==
    (Executed({"IFX33"}) /\ pre.i + 2 < MemLen) =>
        /\ last.res.r = "Ok"
        /\ mem[pre.i] * 100 + mem[pre.i + 1] * 10 + mem[pre.i + 2] = OldX
        /\ mem[pre.i] \in 0..2
        /\ mem[pre.i + 1] \in 0..9
        /\ mem[pre.i + 2] \in 0..9
        /\ mem = [pre.mem EXCEPT ![pre.i] = mem[pre.i],
                                 ![pre.i + 1] = mem[pre.i + 1],
                                 ![pre.i + 2] = mem[pre.i + 2]]
        /\ i = pre.i
        /\ reg = pre.reg

\* 255 has been written as 2, 5, 5 at 0x300
C16_Witness ==
    /\ Executed({"IFX33"})
    /\ OldX = 255
    /\ pre.i = 768
    /\ mem[768] = 2 /\ mem[769] = 5 /\ mem[770] = 5

\* The calls of one collaborator method made by the last step, in order
CallsOf(f) == SelectSeq(last.log, LAMBDA e : e.f = f)

\* C17: graphics sink calls.  In every step, refresh is called exactly once
\* if the step executes DXYN or 00E0 and not at all otherwise; clear is called
\* only by 00E0 (once) and toggle_sprite only by DXYN (once, before the
\* refresh); after a draw VF is 1 if toggle_sprite returned true and 0 if it
\* returned false.
C17_GraphicsCalls ==
    (last.res.r # "Panic") =>
        /\ Len(CallsOf("refresh")) =
              IF Executed({"IDXYN", "I00E0"}) THEN 1 ELSE 0
        /\ Len(CallsOf("clear")) = IF Executed({"I00E0"}) THEN 1 ELSE 0
        /\ Len(CallsOf("toggle_sprite")) = IF Executed({"IDXYN"}) THEN 1 ELSE 0
        /\ Executed({"I00E0"}) =>
              last.log = <<[f |-> "clear"], [f |-> "refresh"]>>
        /\ Executed({"IDXYN"}) =>
              /\ Len(last.log) = 2
              /\ last.log[1].f = "toggle_sprite"
              /\ last.log[2].f = "refresh"
              /\ reg[VF] = IF last.log[1].ret THEN 1 ELSE 0
              /\ \A k \in 0..(RegLen - 1) : k # VF => reg[k] = pre.reg[k]

\* A draw that collided has set a VF that was 0 to 1 and refreshed once
C17_Witness ==
    /\ Executed({"IDXYN"})
    /\ last.log[1].ret
    /\ pre.reg[VF] = 0
    /\ reg[VF] = 1
    /\ Len(CallsOf("refresh")) = 1

\* The buffer the k-th recorded toggle_sprite call left behind
After(k) == IF k = Len(draws) THEN buf ELSE draws[k + 1].before

\* The pixels the lit bits of a sprite land on: bit k (MSB first) of row r
\* at ((x + k) mod 64, (y + r) mod 32)
LitPixels(pos, sprite) ==
    {Cell((pos[1] + k) % 64, (pos[2] + r) % 32) :
        <<r, k>> \in {q \in (0..(Len(sprite) - 1)) \X (0..7) :
                        (sprite[q[1] + 1] \div (2 ^ (7 - q[2]))) % 2 = 1}}

\* C18: drawing is an XOR involution.  Two toggle_sprite calls in a row with
\* the same position and the same sprite of 1..15 rows leave the framebuffer
\* as it was before the first; if the sprite has a lit bit and the
\* framebuffer was clear under the sprite's lit bits, the second call
\* reports a collision.
C18_DrawTwiceRestores ==
    \A k \in 2..Len(draws) :
        (/\ draws[k].pos = draws[k - 1].pos
         /\ draws[k].sprite = draws[k - 1].sprite
         /\ Len(draws[k].sprite) \in 1..15) =>
            /\ After(k) = draws[k - 1].before
            /\ (/\ LitPixels(draws[k].pos, draws[k].sprite) # {}
                /\ \A c \in LitPixels(draws[k].pos, draws[k].sprite) :
                      draws[k - 1].before[c] = 0)
               => draws[k].ret

\* On a framebuffer with earlier drawings, a sprite drawn twice across the
\* right and bottom edges is gone again and the second call collided
C18_Witness ==
    /\ Len(draws) = 2
    /\ draws[1].pos = <<60, 30>> /\ draws[2].pos = <<60, 30>>
    /\ draws[1].sprite = <<129, 0, 60>> /\ draws[2].sprite = <<129, 0, 60>>
    /\ draws[1].before # new_buffer
    /\ ~draws[1].ret
    /\ draws[2].before # draws[1].before
    /\ draws[2].ret
    /\ buf = draws[1].before

\* C19: collision and pixel placement.  toggle_sprite returns true iff some
\* lit sprite bit lands on a pixel that was lit before the call; bit k (MSB
\* first) of row r lands on ((x + k) mod 64, (y + r) mod 32) and inverts
\* that pixel; unlit bits change no pixel and cause no collision.
C19_Collision ==
    \A k \in 1..Len(draws) :
        LET d   == draws[k]
            lit == LitPixels(d.pos, d.sprite)
        IN /\ d.ret = (\E c \in lit : d.before[c] # 0)
           /\ After(k) = [c \in DOMAIN d.before |->
                            IF c \in lit
                            THEN (IF d.before[c] # 0 THEN 0 ELSE Lit)
                            ELSE d.before[c]]

\* A sprite drawn on unlit pixels without a collision, then a sprite across
\* the corner whose lit bits meet it at (0, 0) and (1, 0), with a collision
C19_Witness ==
    /\ Len(draws) = 2
    /\ draws[1].before = new_buffer
    /\ draws[1].pos = <<0, 0>> /\ draws[1].sprite = <<255>> /\ ~draws[1].ret
    /\ draws[2].pos = <<60, 30>> /\ draws[2].sprite = <<129, 0, 60>>
    /\ draws[2].ret
    /\ buf[Cell(0, 0)] = 0 /\ buf[Cell(1, 0)] = 0 /\ buf[Cell(2, 0)] = Lit
    /\ buf[Cell(62, 0)] = Lit /\ buf[Cell(63, 0)] = Lit
    /\ buf[Cell(60, 30)] = Lit /\ buf[Cell(3, 30)] = Lit

\* C20: opcodes with top nibble 0.  0x00E0 decodes to clear-screen and
\* 0x00EE to return, and no other opcode does; every opcode in
\* 0x0200..0x0FFF decodes to the machine-routine instruction with address
\* NNN; every other opcode below 0x0200 is Err(InvalidInstruction(opcode)).
C20_DecodeZero ==
    LET op == slice[1] * 256 + slice[2]
    IN (decoded.r # "None" /\ Len(slice) = 2) =>
        /\ op < 4096 =>
              decoded =
                IF op = 224 THEN Ok(InsNone("I00E0"))
                ELSE IF op = 238 THEN Ok(InsNone("I00EE"))
                ELSE IF op \in 512..4095 THEN Ok(InsA("I0NNN", op))
                ELSE Err(InvalidInstruction(op))
        /\ (decoded.r = "Ok" /\ decoded.v.op = "I00E0") => op = 224
        /\ (decoded.r = "Ok" /\ decoded.v.op = "I00EE") => op = 238
        /\ (decoded.r = "Ok" /\ decoded.v.op = "I0NNN") => op \in 512..4095

\* The lowest machine-routine opcode, 0x0200, has been decoded
C20_Witness ==
    /\ slice = <<2, 0>>
    /\ decoded.r = "Ok"
    /\ decoded.v.op = "I0NNN"
    /\ decoded.v.nnn = 512

\* The opcode of a two-byte slice and its four nibbles, top first
SliceOp == slice[1] * 256 + slice[2]
Nib(k)  == (SliceOp \div (16 ^ (4 - k))) % 16

\* C21: opcodes with a top nibble other than 0 decode iff the top nibble is
\* 1, 2, 3, 4, 6, 7, A, B, C or D; or 5 or 9 with bottom nibble 0; or 8 with
\* bottom nibble in 0..7 or E; or E with bottom byte 9E or A1; or F with
\* bottom byte 07, 0A, 15, 18, 1E, 29, 33, 55 or 65.  Every other such
\* opcode gives Err(InvalidInstruction(opcode)).
C21_DecodeNonZero ==
    (decoded.r # "None" /\ Len(slice) = 2 /\ Nib(1) # 0) =>
        LET low   == SliceOp % 256
            valid ==
              \/ Nib(1) \in {1, 2, 3, 4, 6, 7, 10, 11, 12, 13}
              \/ Nib(1) \in {5, 9} /\ Nib(4) = 0
              \/ Nib(1) = 8 /\ Nib(4) \in (0..7) \cup {14}
              \/ Nib(1) = 14 /\ low \in {158, 161}
              \/ Nib(1) = 15 /\ low \in {7, 10, 21, 24, 30, 41, 51, 85, 101}
        IN IF valid THEN decoded.r = "Ok"
           ELSE decoded = Err(InvalidInstruction(SliceOp))

\* 0x8AB8, one past the arithmetic group's arms, has been rejected
C21_Witness ==
    /\ slice = <<138, 184>>
    /\ decoded = Err(InvalidInstruction(35512))

\* C22: operand extraction.  In every decoded instruction the X operand is
\* bits 8..11 of the opcode, the Y operand bits 4..7, an address operand the
\* low 12 bits, an 8-bit immediate the low byte and a 4-bit immediate the
\* low nibble.
C22_Operands ==
    (decoded.r = "Ok" /\ Len(slice) = 2) =>
        LET ins == decoded.v
            has(f) == f \in DOMAIN ins
        IN /\ has("x")   => ins.x = Nib(2)
           /\ has("y")   => ins.y = Nib(3)
           /\ has("nnn") => ins.nnn = SliceOp % 4096
           /\ has("vv")  => ins.vv = SliceOp % 256
           /\ has("v")   => ins.v = Nib(4)
           /\ DOMAIN ins \in {{"op"}, {"op", "nnn"}, {"op", "x", "vv"},
                               {"op", "x", "y"}, {"op", "x", "y", "v"}, {"op", "x"}}

\* 0xDAB5 has been decoded to a draw of 5 rows at (VA, VB)
C22_Witness ==
    /\ slice = <<218, 181>>
    /\ decoded = Ok(InsXYN("IDXYN", 10, 11, 5))

\* C23: after Core::new, memory 0..79 holds the font (glyph d at 5 * d),
\* PC = 0x200, I = 0, SP = 0, and every register and every stack slot is
\* zero, whatever the buffers held before.
C23_ConstructedState ==
    (last.res.r = "Ok") =>
        /\ \A d \in 0..15 : \A k \in 0..4 : mem[5 * d + k] = Font[5 * d + k + 1]
        /\ pc = 512 /\ i = 0 /\ sp = 0
        /\ \A k \in 0..15 : reg[k] = 0
        /\ \A k \in 0..15 : stack[k] = 0

\* C24: memory is at least 4096 bytes in every state of a constructed
\* machine, so every 12-bit address 0..4095 is inside it.
C24_MemoryHoldsAddresses ==
    (last.res.r = "Ok") => \A a \in 0..4095 : a \in DOMAIN mem

\* C25: a decode given fewer than two bytes (a slice of length 0 or 1)
\* returns Err(InvalidAlignment); it neither panics nor decodes.
C25_ShortSliceIsError ==
    (decoded.r # "None" /\ Len(slice) < 2) => decoded = Err(InvalidAlignment)

\* C26: a step whose opcode decodes to the machine-routine instruction
\* (0NNN, NNN in 0x200..0xFFF) is fatal: it does not return Ok, it is not
\* skipped, and PC, the registers, I, SP, memory and the stack are as before.
C26_MachineRoutineFatal ==
    (/\ last.res.r # "None"
     /\ pre.pc + 1 < MemLen
     /\ try_from(<<pre.mem[pre.pc], pre.mem[pre.pc + 1]>>).r = "Ok"
     /\ try_from(<<pre.mem[pre.pc], pre.mem[pre.pc + 1]>>).v.op = "I0NNN") =>
        /\ last.res.r = "Panic"
        /\ halted
        /\ pc = pre.pc /\ i = pre.i /\ sp = pre.sp
        /\ reg = pre.reg /\ mem = pre.mem /\ stack = pre.stack

\* The step at 0x0300 has panicked with PC still at 0x200
C26_Witness ==
    /\ last.res.r = "Panic"
    /\ pre.mem[pre.pc] = 3 /\ pre.mem[pre.pc + 1] = 0
    /\ pc = 512
    /\ halted

\* C27: DownTimer.  tick decrements the 8-bit value by one, 0 becoming
\* 255, and returns true iff the value was 0 before; get after set(v)
\* returns v; a new timer holds 0.
C27_DownTimer ==
    /\ last.log = <<>> => timer_delay = 0
    /\ last.log # <<>> =>
         LET n    == Len(last.log)
             call == last.log[n]
         IN /\ call.f = "tick" =>
                 /\ timer_delay = (IF call.before = 0 THEN 255 ELSE call.before - 1)
                 /\ call.ret = (call.before = 0)
            /\ (n = 2 /\ call.f = "get" /\ last.log[1].f = "set") =>
                 call.ret = last.log[1].ret
            /\ timer_delay \in 0..255

\* A timer set to 1 and ticked twice holds 255 and has reported the wrap
C27_Witness ==
    /\ Len(last.log) = 2
    /\ last.log[1] = [f |-> "tick", before |-> 1, ret |-> FALSE]
    /\ last.log[2] = [f |-> "tick", before |-> 0, ret |-> TRUE]
    /\ timer_delay = 255

\* C28: timer pacing.  With D = timer_freq_div >= 1, after n Chip8::tick
\* calls that returned Ok both timers have been ticked n div D times, together
\* and on every D-th such call, key-wait holds included; the divider counter
\* is in 0..D-1 after every call.
C28_TimerPacing ==
    timer_freq_div >= 1 =>
        LET D       == timer_freq_div
            due     == IF pace.n % D = 0 THEN 1 ELSE 0
            delay0  == IF Executed({"IFX15"}) THEN pre.reg[OpX] ELSE pre.timer_delay
            sound0  == IF Executed({"IFX18"}) THEN pre.reg[OpX] ELSE pre.timer_sound
        IN /\ pace.timers = pace.n \div D
           /\ timer_freq_count = pace.n % D
           /\ timer_freq_count \in 0..(D - 1)
           /\ last.res.r = "Ok" =>
                /\ timer_delay = (delay0 + 256 - due) % 256
                /\ timer_sound = (sound0 + 256 - due) % 256
           /\ last.res.r \in {"Err", "Panic"} =>
                /\ timer_delay = pre.timer_delay
                /\ timer_sound = pre.timer_sound
                /\ timer_freq_count = pre.timer_freq_count

\* At 700 Hz (D = 11) the 22nd successful call, a key-wait that held, has
\* ticked both timers for the second time
C28_Witness ==
    /\ timer_freq_div = 11
    /\ pace = [n |-> 22, timers |-> 2]
    /\ Executed({"IFX0A"})
    /\ pc = pre.pc
    /\ timer_delay = 254 /\ timer_sound = 254
    /\ timer_freq_count = 0

\* C29: jumps go to the absolute target.  After a 1NNN step PC = NNN; after
\* a BNNN step PC = NNN + V0, not truncated to 12 bits (0..0x10FE); neither
\* changes SP, the stack, I or a register.
C29_JumpTarget ==
    Executed({"I1NNN", "IBNNN"}) =>
        /\ last.res.r = "Ok"
        /\ Executed({"I1NNN"}) => pc = last.ins.v.nnn
        /\ Executed({"IBNNN"}) => pc = last.ins.v.nnn + pre.reg[0]
        /\ last.ins.v.nnn = (pre.mem[pre.pc] % 16) * 256 + pre.mem[pre.pc + 1]
        /\ pc \in 0..4350
        /\ sp = pre.sp /\ stack = pre.stack /\ i = pre.i /\ reg = pre.reg
        /\ mem = pre.mem

\* BFFF with V0 = 255 has set PC to 0x10FE
C29_Witness ==
    /\ Executed({"IBNNN"})
    /\ last.ins.v.nnn = 4095
    /\ pre.reg[0] = 255
    /\ pc = 4350

\* C30: in the mask map_keys makes of the host keys, bit n is set iff some
\* held host key is mapped to CHIP-8 key n; a held host key without a CHIP-8
\* mapping sets no bit.
C30_KeypadSnapshot ==
    \A n \in 0..15 :
        BitSet(keys_current, n) <=>
            \E k \in 1..Len(host) :
                host[k] \in DOMAIN KeyMap /\ KeyMap[host[k]] = n

\* The key the register value numbers, among sixteen keys: none above 15
KeyDown(keys, v) == v < U16_BITS /\ BitSet(keys, v)

\* C31: an EX9E step skips (PC + 4) iff bit Vx of the keypad mask is set and
\* otherwise advances by 2, an EXA1 step skips iff that bit is not set; for
\* Vx above 15 no key counts as pressed and the step still completes.
C31_KeySkip ==
    Executed({"IEX9E", "IEXA1"}) =>
        /\ last.res.r = "Ok"
        /\ LET down == KeyDown(last.log[1].keys, OldX)
               skip == IF last.ins.v.op = "IEX9E" THEN down ELSE ~down
           IN pc = pre.pc + (IF skip THEN 4 ELSE 2)

\* The buffers the display held between whole calls
WholeBuffers ==
    {draws[k].before : k \in 1..Len(draws)}
    \cup (IF core_at.at \in {"toggle_sprite", "clear"} THEN {} ELSE {buf})

\* C32: the GUI never copies the framebuffer while a toggle_sprite or clear
\* is part-way through: it holds the lock only while the emulator thread is
\* between calls, and every buffer it copies or presents is the framebuffer
\* as it was before or after a whole sprite draw or whole clear.
C32_MutualExclusion ==
    /\ buf_lock = "gui" => core_at.at \in {"idle", "refresh"}
    /\ gui_buffer.buffer \in WholeBuffers
    /\ window.buffer \in WholeBuffers

\* The GUI thread waits for the lock while a clear that follows a sprite is
\* part-way through
C32_Witness ==
    /\ gui_at = "lock"
    /\ buf_lock = "core"
    /\ core_at.at = "clear"
    /\ core_at.k \in 1..(WIDTH - 1)
    /\ draws[1].call.f = "toggle_sprite"
    /\ buf \notin WholeBuffers

\* The step before the last executed FX55 with the same x: the programs run
\* straight from PcStart, where I is set, and FX55 leaves I as it is
StoredBefore ==
    /\ pre.pc = PcStart + 4
    /\ try_from(<<pre.mem[PcStart + 2], pre.mem[PcStart + 3]>>)
           = Ok(InsX("IFX55", OpX))

\* C33: an FX55 step sets memory[I + k] = Vk for every k in 0..x and changes
\* no other memory byte, no register and not I; an FX65 step sets
\* Vk = memory[I + k] for every k in 0..x and changes no register above x, no
\* memory and not I; FX55 followed by FX65 with the same I and x leaves every
\* register with the value it had before.  The addresses I..I + x lie in
\* memory.
C33_BulkStoreLoad ==
    /\ (Executed({"IFX55"}) /\ pre.i + OpX < MemLen) =>
          /\ last.res.r = "Ok"
          /\ \A a \in DOMAIN mem :
                mem[a] = IF a \in pre.i..(pre.i + OpX) THEN pre.reg[a - pre.i]
                         ELSE pre.mem[a]
          /\ reg = pre.reg /\ i = pre.i
    /\ (Executed({"IFX65"}) /\ pre.i + OpX < MemLen) =>
          /\ last.res.r = "Ok"
          /\ \A k \in DOMAIN reg :
                reg[k] = IF k <= OpX THEN pre.mem[pre.i + k] ELSE pre.reg[k]
          /\ mem = pre.mem /\ i = pre.i
          /\ StoredBefore => reg = pre.reg

\* Sixteen different registers have been stored in the last sixteen bytes of
\* memory and loaded again
C33_Witness ==
    /\ Executed({"IFX65"})
    /\ StoredBefore
    /\ OpX = 15
    /\ i = 4080
    /\ mem[4095] = 241
    /\ reg[15] = 241 /\ reg[0] = 1

\* Key n went from pressed to released between two masks
Released(before, after, n) == BitSet(before, n) /\ ~BitSet(after, n)

\* C34: prev.falling_edges(after) has bit n set iff bit n is set in prev and
\* clear in after; Keys::update(after) replaces the stored mask by after and
\* returns Some(edges) when that edge set is non-empty and None when it is
\* empty, so a key that stays held or becomes pressed never produces an edge.
C34_KeyEdges ==
    last.log # <<>> =>
        LET call == last.log[1]
        IN /\ call.edges \in 0..(U16 - 1)
           /\ \A n \in 0..15 :
                 BitSet(call.edges, n) <=> Released(call.before, call.after, n)
           /\ keys_prev = call.after
           /\ call.ret.some <=> \E n \in 0..15 : Released(call.before, call.after, n)
           /\ call.ret.some => call.ret.v = call.edges

\* Key 0 stayed held, key 15 became pressed and key 4 was released: the
\* update returned key 4 alone
C34_Witness ==
    /\ last.log # <<>>
    /\ last.log[1].before = 17
    /\ last.log[1].after = 32769
    /\ last.log[1].ret = Some(16)
    /\ keys_prev = 32769

\* C35: the core never ticks a timer.  Over any sequence of Core::tick steps
\* the delay timer's value is changed only by an FX15 step (to Vx) and the
\* sound timer's only by an FX18 step (to Vx); an FX07 step copies the delay
\* value into Vx without changing either timer.
C35_TimersOnlyByInstruction ==
    last.res.r # "None" =>
        /\ timer_delay # pre.timer_delay => Executed({"IFX15"})
        /\ timer_sound # pre.timer_sound => Executed({"IFX18"})
        /\ Executed({"IFX15"}) =>
              /\ last.res.r = "Ok"
              /\ timer_delay = OldX /\ timer_sound = pre.timer_sound
        /\ Executed({"IFX18"}) =>
              /\ last.res.r = "Ok"
              /\ timer_sound = OldX /\ timer_delay = pre.timer_delay
        /\ Executed({"IFX07"}) =>
              /\ last.res.r = "Ok"
              /\ reg[OpX] = pre.timer_delay
              /\ timer_delay = pre.timer_delay /\ timer_sound = pre.timer_sound

\* A delay of 255 has been copied into V1 while the sound timer stays at 128
C35_Witness ==
    /\ Executed({"IFX07"})
    /\ OpX = 1
    /\ OldX = 128
    /\ reg[1] = 255
    /\ timer_delay = 255 /\ timer_sound = 128

NonFlagOps ==
    {"I6XNN", "I7XNN", "I8XY0", "I8XY1", "I8XY2", "I8XY3", "ICXNN", "IFX07",
     "IANNN", "IFX1E", "IFX29"}

\* The register operand of the last step; IANNN has none
TargetX == IF last.ins.v.op = "IANNN" THEN RegLen ELSE OpX

\* C36: a step executing 6XNN, 7XNN, 8XY0, 8XY1, 8XY2, 8XY3, CXNN, FX07,
\* ANNN, FX1E or FX29 with x # 15 leaves VF and every register other than Vx
\* unchanged; 7XNN sets Vx = (Vx + NN) mod 256 and FX1E sets
\* I = (I + Vx) mod 65536 with no carry recorded; none of them changes SP, the
\* stack or memory, and each advances PC by 2.
C36_NonFlagInstructions ==
    (Executed(NonFlagOps) /\ TargetX # VF) =>
        /\ last.res.r = "Ok"
        /\ \A k \in DOMAIN reg : k # TargetX => reg[k] = pre.reg[k]
        /\ last.ins.v.op = "I7XNN" => reg[OpX] = (OldX + last.ins.v.vv) % 256
        /\ last.ins.v.op = "IFX1E" => i = (pre.i + OldX) % 65536
        /\ sp = pre.sp /\ stack = pre.stack /\ mem = pre.mem
        /\ pc = pre.pc + 2

\* FX1E has wrapped I past 65535 and VF, which was 0, still is
C36_Witness ==
    /\ Executed({"IFX1E"})
    /\ OpX = 0
    /\ pre.i + OldX >= U16
    /\ i = pre.i + OldX - U16
    /\ reg[VF] = 0

\* The calls after which the emulator thread has called refresh
Refreshed == IF core_at.at = "idle" THEN Len(draws) ELSE Len(draws) - 1

\* C37: no refresh is lost between the threads.  Whenever the core has called
\* refresh after its k-th change of the framebuffer, the GUI loop, as long as
\* it keeps iterating, eventually presents a buffer that contains the first k
\* changes, under every interleaving of the core's lock, modify and refresh
\* steps with the GUI's swap, lock and copy steps.
C37_NoLostRefresh ==
    \A k \in 1..MaxCalls : (Refreshed >= k) ~> (window.calls >= k)

\* The window shows the buffer after both calls although the GUI took its
\* copy before the emulator thread called its second refresh
C37_Witness ==
    /\ window.calls = 2
    /\ window.buffer = buf
    /\ draws[2].before # buf
    /\ core_at.at = "refresh"
    /\ ~changed

\* The last step of the core was a key-wait that held its place
HeldOnKeyWait == ~halted /\ Executed({"IFX0A"}) /\ pc = pre.pc

\* C38: no key release is missed while waiting.  If the GUI loop samples a
\* key going from pressed to released while the core is held on FX0A, some
\* later core step observes that release and the held FX0A completes with
\* that key's index, however the two threads interleave.  A release is
\* offered to the core from the iteration that samples it until the next
\* iteration, so the GUI loop does not iterate again over a release the held
\* core has not been given.
C38_ReleaseDelivered ==
    [][(/\ frame' = frame + 1
        /\ HeldOnKeyWait
        /\ falling_edges(keys_prev, keys_current) # 0)
       => \A k \in Bits(falling_edges(keys_prev, keys_current)) :
             \E n \in 1..Len(taken) : taken[n] = <<frame, k>>]_vars

\* C39: shutdown on a fatal condition.  Chip8::run never returns Ok: the
\* thread leaves its loop only after a step that failed; and whenever the
\* emulator thread has stopped because a step ended fatally, a stop signal has
\* been sent to the GUI loop, which returns when it receives it.
C39_Shutdown ==
    /\ core_at.at # "run" => last.res.r \in {"Err", "Panic"}
    /\ core_at.at \in {"exited", "panicked"} =>
          stop_gui.queue > 0 \/ gui_at = "returned"

=============================================================================
